---- MODULE Spec2Model ----
(***************************************************************************)
(* Commandable GRPC layer of pip-services3-grpc-node: the endpoint's       *)
(* lifecycle and command table (GrpcEndpoint), the commandable service     *)
(* that fills the table (CommandableGrpcService), and the commandable      *)
(* client that encodes a call and decodes its response                     *)
(* (CommandableGrpcClient).                                                *)
(***************************************************************************)
EXTENDS Integers, Sequences, FiniteSets, TLC

VARIABLES
    server,         \* GrpcEndpoint._server: the state of the server object it refers to
    leaked,         \* some server object this._server no longer refers to takes calls
    uri,            \* GrpcEndpoint._uri
    registrations,  \* GrpcEndpoint._registrations
    methods,        \* GrpcEndpoint._commandableMethods
    schemas,        \* GrpcEndpoint._commandableSchemas
    nResolving,     \* open() calls waiting for the connection resolver's resolve callback
    nBindLeak,      \* pending bindAsync callbacks of servers this._server no longer refers
                    \* to, which take calls once bound
    nBindDead,      \* pending bindAsync callbacks of the other such servers
    nRegistering,   \* open() calls waiting for the connection resolver's register callback
    nClosing,       \* close() calls waiting for the tryShutdown callback
    client,         \* the commandable client: its _name and its _client ("null" or "stub")
    call,           \* the callCommand invocation in flight
    ev,             \* history: what the latest step did and reported to its callback
    cycle,          \* history: the command names after the first open of an open,
                    \* close, open cycle with no register() or unregister() in it
    svc,            \* the services: each one's _endpoint, _localEndpoint and _opened,
                    \* and the open or close of its own endpoint it waits for
    chain,          \* one call of a method registered with registerMethod: the
                    \* calls of the interceptors and of the action so far
    split,          \* open: the loop that splits the text of the CA file, its caText
                    \* and ca, and the text that was read
    inv             \* the invoke calls the server has handed to the handler: of each
                    \* one the handler's locals, when its action completes, and what
                    \* the transport callback has been given so far

vars == <<server, leaked, uri, registrations, methods, schemas, nResolving, nBindLeak,
          nBindDead, nRegistering, nClosing, client, call, ev, cycle,
          svc, chain, split, inv>>

-----------------------------------------------------------------------------
(* Bounds *)

MaxInterceptors == 3    \* interceptors a service registers

MaxOpens == 2       \* open() calls in flight at once
MaxCloses == 1      \* close() calls waiting for the tryShutdown callback at once
MaxRegs == 2        \* length of the registration list
MaxCaText == 3      \* length of the text of a CA file
MaxInvocations == 2 \* invoke calls the handler works on at once

-----------------------------------------------------------------------------
(* JSON values.  Every value is a record of one shape: t the type, s the   *)
(* characters of a string or the literal of a number or boolean, ks the    *)
(* keys and vs the members of an object or the elements of an array.       *)

Q == "\""
BS == "\\"

JNull == [t |-> "null", s |-> <<>>, ks |-> <<>>, vs |-> <<>>]
JBool(b) == [t |-> "bool", s |-> <<b>>, ks |-> <<>>, vs |-> <<>>]
JNum(n) == [t |-> "num", s |-> <<n>>, ks |-> <<>>, vs |-> <<>>]
JStr(chars) == [t |-> "str", s |-> chars, ks |-> <<>>, vs |-> <<>>]
JArr(elems) == [t |-> "arr", s |-> <<>>, ks |-> <<>>, vs |-> elems]
JObj(keys, vals) == [t |-> "obj", s |-> <<>>, ks |-> keys, vs |-> vals]

NumLiterals == {"0", "1"}
BoolLiterals == {"true", "false"}

\* the text of a null string field (result_json: null, args_json: null)
NullText == <<"#null">>

RECURSIVE Escape(_)
Escape(chars) ==
    IF chars = <<>> THEN <<>>
    ELSE IF Head(chars) \in {Q, BS}
         THEN <<BS, Head(chars)>> \o Escape(Tail(chars))
         ELSE <<Head(chars)>> \o Escape(Tail(chars))

\* Quoted without the escapes
QuotedRaw(chars) == <<Q>> \o chars \o <<Q>>

Quoted(chars) == <<Q>> \o Escape(chars) \o <<Q>>

RECURSIVE JoinComma(_)
JoinComma(texts) ==
    IF texts = <<>> THEN <<>>
    ELSE IF Len(texts) = 1 THEN texts[1]
         ELSE texts[1] \o <<",">> \o JoinComma(Tail(texts))

RECURSIVE Stringify(_)
Stringify(v) ==
    CASE v.t = "null" -> <<"null">>
      [] v.t \in {"bool", "num"} -> v.s
      [] v.t = "str" -> Quoted(v.s)
      [] v.t = "arr" ->
            <<"[">> \o JoinComma([i \in 1..Len(v.vs) |-> Stringify(v.vs[i])]) \o <<"]">>
      [] v.t = "obj" ->
            <<"{">>
            \o JoinComma([i \in 1..Len(v.vs) |->
                            Quoted(v.ks[i]) \o <<":">> \o Stringify(v.vs[i])])
            \o <<"}">>

ParseFail == [ok |-> FALSE, v |-> JNull, s |-> <<>>, rest |-> <<>>]
Parsed(v, rest) == [ok |-> TRUE, v |-> v, s |-> <<>>, rest |-> rest]

\* the characters of a string, up to its closing quote
RECURSIVE ParseChars(_, _)
ParseChars(toks, acc) ==
    IF toks = <<>> THEN ParseFail
    ELSE IF Head(toks) = Q
         THEN [ok |-> TRUE, v |-> JNull, s |-> acc, rest |-> Tail(toks)]
         ELSE IF Head(toks) = BS
              THEN IF Len(toks) < 2 THEN ParseFail
                   ELSE ParseChars(Tail(Tail(toks)), Append(acc, toks[2]))
              ELSE ParseChars(Tail(toks), Append(acc, Head(toks)))

RECURSIVE ParseValue(_), ParseElements(_, _), ParseMembers(_, _, _)
ParseValue(toks) ==
    IF toks = <<>> THEN ParseFail
    ELSE LET h == Head(toks)
             r == Tail(toks)
         IN  CASE h = "null" -> Parsed(JNull, r)
               [] h \in BoolLiterals -> Parsed(JBool(h), r)
               [] h \in NumLiterals -> Parsed(JNum(h), r)
               [] h = Q -> LET p == ParseChars(r, <<>>)
                           IN  IF p.ok THEN Parsed(JStr(p.s), p.rest) ELSE ParseFail
               [] h = "[" -> IF r # <<>> /\ Head(r) = "]"
                             THEN Parsed(JArr(<<>>), Tail(r))
                             ELSE ParseElements(r, <<>>)
               [] h = "{" -> IF r # <<>> /\ Head(r) = "}"
                             THEN Parsed(JObj(<<>>, <<>>), Tail(r))
                             ELSE ParseMembers(r, <<>>, <<>>)
               [] OTHER -> ParseFail

\* the elements of a non-empty array, after "[" or ","
ParseElements(toks, acc) ==
    LET p == ParseValue(toks)
    IN  IF ~p.ok \/ p.rest = <<>> THEN ParseFail
        ELSE IF Head(p.rest) = "]" THEN Parsed(JArr(Append(acc, p.v)), Tail(p.rest))
        ELSE IF Head(p.rest) = "," THEN ParseElements(Tail(p.rest), Append(acc, p.v))
        ELSE ParseFail

\* the members of a non-empty object, after "{" or ","
ParseMembers(toks, keys, vals) ==
    IF toks = <<>> \/ Head(toks) # Q THEN ParseFail
    ELSE LET k == ParseChars(Tail(toks), <<>>)
         IN  IF ~k.ok \/ k.rest = <<>> \/ Head(k.rest) # ":" THEN ParseFail
             ELSE LET p == ParseValue(Tail(k.rest))
                  IN  IF ~p.ok \/ p.rest = <<>> THEN ParseFail
                      ELSE IF Head(p.rest) = "}"
                           THEN Parsed(JObj(Append(keys, k.s), Append(vals, p.v)), Tail(p.rest))
                      ELSE IF Head(p.rest) = ","
                           THEN ParseMembers(Tail(p.rest), Append(keys, k.s), Append(vals, p.v))
                      ELSE ParseFail

\* JSON.parse: the whole text is one value
ParseJson(text) ==
    LET p == ParseValue(text)
    IN  IF p.ok /\ p.rest = <<>> THEN p ELSE ParseFail

-----------------------------------------------------------------------------
(* Errors.  kind "app" is an ApplicationException of pip-services3-commons, *)
(* "plain" any other thrown or returned error value, "status" the error    *)
(* the transport hands a client for a call that did not complete, "none"   *)
(* no error (null).                                                        *)

NoErr ==
    [kind |-> "none", category |-> "", code |-> "", cid |-> "", details |-> {},
     cause |-> "", msg |-> ""]

AppError(category, code, cid, msg) ==
    [kind |-> "app", category |-> category, code |-> code, cid |-> cid, details |-> {},
     cause |-> "", msg |-> msg]

InvocationException(cid, code, msg) == AppError("FailedInvocation", code, cid, msg)

ConnectionException(cid, code, msg) == AppError("NoResponse", code, cid, msg)

PlainError(msg) ==
    [kind |-> "plain", category |-> "", code |-> "", cid |-> "", details |-> {},
     cause |-> "", msg |-> msg]

\* what the client's stub reports for a call the server completed with an error
StatusError(msg) ==
    [kind |-> "status", category |-> "", code |-> "GRPC_UNKNOWN", cid |-> "", details |-> {},
     cause |-> "", msg |-> msg]

\* what the client's stub reports when no server takes the call
Unavailable ==
    [kind |-> "status", category |-> "", code |-> "GRPC_UNAVAILABLE", cid |-> "",
     details |-> {}, cause |-> "", msg |-> "unavailable"]

\* ApplicationException.withDetails(key, value)
WithDetails(e, key, value) ==
    [e EXCEPT !.details = {d \in @ : d[1] # key} \cup {<<key, value>>}]

\* ApplicationException.wrap(cause): an application exception is returned as it
\* is, any other error becomes the cause of the wrapping exception
Wrap(e, cause) ==
    IF cause.kind = "app" THEN cause ELSE [e EXCEPT !.cause = cause.msg]

NullDescription ==
    [nil |-> TRUE, category |-> "", code |-> "", cid |-> "", details |-> {}, cause |-> "",
     msg |-> ""]

ErrorDescriptionFactoryCreate(e) ==
    IF e.kind = "app"
    THEN [nil |-> FALSE, category |-> e.category, code |-> e.code, cid |-> e.cid,
          details |-> e.details, cause |-> e.cause, msg |-> e.msg]
    ELSE [nil |-> FALSE, category |-> "Unknown", code |-> "UNKNOWN", cid |-> "",
          details |-> {}, cause |-> "", msg |-> e.msg]

ApplicationExceptionFactoryCreate(d) ==
    [kind |-> "app", category |-> d.category, code |-> d.code, cid |-> d.cid,
     details |-> d.details, cause |-> d.cause, msg |-> d.msg]

-----------------------------------------------------------------------------
(* The commandable services, their controllers' command sets and what the  *)
(* commands do.                                                            *)

ServiceNames == {"svcA", "svcB"}

\* ICommandable.getCommandSet().getCommands() of each service's controller
CommandSet(S) ==
    IF S = "svcA" THEN <<"get_item", "fail_item", "any">> ELSE <<"any">>

\* "<serviceName>.<commandName>"
MethodName(S, n) == S \o "." \o n

Item == JObj(<< <<"id">>, <<"name">> >>, <<JStr(<<"1">>), JStr(<<"x">>)>>)

\* result values a command may return (null is JNull)
Results ==
    {Item, JNum("0"), JBool("false"), JStr(<<>>), JStr(<<"a", Q, BS>>),
     JArr(<<JNull, JNum("1")>>), JObj(<<>>, <<>>)}

NotFound == AppError("NotFound", "NOT_FOUND", "c1", "Item was not found")
Boom == PlainError("boom")

NoOutcome == [how |-> "none", err |-> NoErr, val |-> JNull]
Returns(val) == [how |-> "ok", err |-> NoErr, val |-> val]
Fails(err, val) == [how |-> "err", err |-> err, val |-> val]
Throws(err) == [how |-> "throw", err |-> err, val |-> JNull]

\* the outcomes of one execution of a command: "get_item" returns the item,
\* "fail_item" always fails with NOT_FOUND, "any" stands for every handler
Behaviour(n) ==
    CASE n = "get_item" -> {Returns(Item)}
      [] n = "fail_item" -> {Fails(NotFound, JNull)}
      [] OTHER ->
            {Returns(v) : v \in Results \cup {JNull}}
            \cup {Fails(e, v) : e \in {NotFound, Boom}, v \in {JNull, Item}}
            \cup {Throws(e) : e \in {NotFound, Boom}}

\* what callers pass to callCommand
CallNames == {"get_item", "fail_item", "any", "nope"}
CorrelationIds == {"c1", "c2"}
EmptyBag == JObj(<<>>, <<>>)
ArgBags == {JNull, EmptyBag, JObj(<< <<"id">>, <<"q", Q>> >>, <<JStr(<<"1">>), JArr(<<JNum("0")>>)>>)}

-----------------------------------------------------------------------------
(* The envelope: what callCommand sends and what the invoke handler        *)
(* answers.                                                                *)

NoRequest ==
    [method |-> "", correlation_id |-> "", args_empty |-> TRUE, args_json |-> NullText]

NoResponse == [error |-> NullDescription, result_empty |-> FALSE, result_json |-> NullText]

\* EncodeCall with the arguments always marked present
EncodeCallNeverEmpty(S, n, c, A) ==
    [method |-> S \o "." \o n,
     correlation_id |-> c,
     args_empty |-> FALSE,
     args_json |-> Stringify(A)]

\* CommandableGrpcClient.callCommand: the request it builds
EncodeCall(S, n, c, A) ==
    [method |-> MethodName(S, n),
     correlation_id |-> c,
     args_empty |-> (A = JNull),
     args_json |-> IF A # JNull THEN Stringify(A) ELSE NullText]

\* Parameters.fromJson: the parsed object as a parameter bag, an empty bag for
\* text that is no object
ParametersFromJson(text) ==
    LET p == ParseJson(text)
    IN  IF p.ok /\ p.v.t = "obj" THEN p.v ELSE EmptyBag

\* invokeCommandableMethod: "Convert arguments"
DecodeArgs(req) ==
    IF ~req.args_empty /\ req.args_json # NullText /\ req.args_json # <<>>
    THEN ParametersFromJson(req.args_json)
    ELSE EmptyBag

\* NotFoundResponse with the error handed to the transport as well
NotFoundAsFailure(method, cid) ==
    LET err == WithDetails(
                   InvocationException(cid, "METHOD_NOT_FOUND",
                                       "Method " \o method \o " was not found"),
                   "method", method)
    IN  [terr |-> err,
         resp |-> [error |-> ErrorDescriptionFactoryCreate(err),
                   result_empty |-> TRUE,
                   result_json |-> NullText]]

\* invokeCommandableMethod: "Handle method not found"
NotFoundResponse(method, cid) ==
    LET err == WithDetails(
                   InvocationException(cid, "METHOD_NOT_FOUND",
                                       "Method " \o method \o " was not found"),
                   "method", method)
    IN  [terr |-> NoErr,
         resp |-> [error |-> ErrorDescriptionFactoryCreate(err),
                   result_empty |-> TRUE,
                   result_json |-> NullText]]

\* CompletionResponse with the result encoded next to the error
CompletionKeepsResult(err, result) ==
    [terr |-> err,
     resp |-> [error |-> IF err # NoErr THEN ErrorDescriptionFactoryCreate(err)
                         ELSE NullDescription,
               result_empty |-> (result = JNull),
               result_json |-> IF result # JNull THEN Stringify(result) ELSE NullText]]

\* invokeCommandableMethod: the completion callback handed to the action
CompletionResponse(err, result) ==
    IF err # NoErr
    THEN [terr |-> err,
          resp |-> [error |-> ErrorDescriptionFactoryCreate(err),
                    result_empty |-> TRUE,
                    result_json |-> NullText]]
    ELSE [terr |-> err,
          resp |-> [error |-> NullDescription,
                    result_empty |-> (result = JNull),
                    result_json |-> IF result # JNull THEN Stringify(result) ELSE NullText]]

\* FailedResponse that always answers with its own exception
FailedResponseNoWrap(method, cid, ex) ==
    LET err == WithDetails(
                   [InvocationException(cid, "METHOD_FAILED", "Method " \o method \o " failed")
                        EXCEPT !.cause = ex.msg],
                   "method", method)
    IN  [terr |-> NoErr,
         resp |-> [error |-> ErrorDescriptionFactoryCreate(err),
                   result_empty |-> TRUE,
                   result_json |-> NullText]]

\* invokeCommandableMethod: "Handle unexpected exception"
FailedResponse(method, cid, ex) ==
    LET err == WithDetails(
                   Wrap(InvocationException(cid, "METHOD_FAILED",
                                            "Method " \o method \o " failed"), ex),
                   "method", method)
    IN  [terr |-> NoErr,
         resp |-> [error |-> ErrorDescriptionFactoryCreate(err),
                   result_empty |-> TRUE,
                   result_json |-> NullText]]

\* GrpcClient.call: what the stub hands the callback for the server's completion
StubCallback(terr, resp) ==
    IF terr # NoErr
    THEN [err |-> StatusError(terr.msg), response |-> NoResponse]
    ELSE [err |-> NoErr, response |-> resp]

\* OnResponse without the empty-response branch
OnResponseNoEmpty(err, response) ==
    IF err # NoErr THEN [err |-> err, result |-> JNull]
    ELSE IF ~response.error.nil
         THEN [err |-> ApplicationExceptionFactoryCreate(response.error), result |-> JNull]
    ELSE LET p == ParseJson(response.result_json)
         IN  IF p.ok THEN [err |-> NoErr, result |-> p.v]
             ELSE [err |-> PlainError("SyntaxError"), result |-> JNull]

\* OnResponse that parses result_json before it looks at the error field
OnResponseParseFirst(err, response) ==
    IF err # NoErr THEN [err |-> err, result |-> JNull]
    ELSE IF response.result_json # NullText /\ ~ParseJson(response.result_json).ok
         THEN [err |-> PlainError("SyntaxError"), result |-> JNull]
    ELSE IF ~response.error.nil
         THEN [err |-> ApplicationExceptionFactoryCreate(response.error), result |-> JNull]
    ELSE IF response.result_empty \/ response.result_json = NullText
         THEN [err |-> NoErr, result |-> JNull]
    ELSE [err |-> NoErr, result |-> ParseJson(response.result_json).v]

\* CommandableGrpcClient.callCommand: the callback it gives call()
OnResponse(err, response) ==
    IF err # NoErr THEN [err |-> err, result |-> JNull]
    ELSE IF ~response.error.nil
         THEN [err |-> ApplicationExceptionFactoryCreate(response.error), result |-> JNull]
    ELSE IF response.result_empty \/ response.result_json = NullText
         THEN [err |-> NoErr, result |-> JNull]
    ELSE LET p == ParseJson(response.result_json)
         IN  IF p.ok THEN [err |-> NoErr, result |-> p.v]
             ELSE [err |-> PlainError("SyntaxError"), result |-> JNull]

-----------------------------------------------------------------------------
(* The command table.                                                      *)

NoAction == [svc |-> "", cmd |-> ""]

\* the schema CommandableGrpcService registers with every command: null
NoSchema == "null"

NullTable == [nil |-> TRUE, tab |-> [m \in {} |-> NoAction]]

\* table[name] = value
Put(table, name, value) ==
    [nil |-> FALSE,
     tab |-> [m \in DOMAIN table.tab \cup {name} |->
                IF m = name THEN value ELSE table.tab[m]]]

\* invokeCommandableMethod: this._commandableMethods ? this._commandableMethods[method] : null
\* (a name "<service>.<command>" is never an inherited property of the table object)
Lookup(table, method) ==
    IF ~table.nil /\ method \in DOMAIN table.tab THEN table.tab[method] ELSE NoAction

\* registerCommadableMethod that keeps the entry a name already has
RegisterCommadableMethodKeepsFirst(L, method, schema, action) ==
    IF method \in DOMAIN L.methods.tab THEN L
    ELSE [L EXCEPT !.methods = Put(@, method, action), !.schemas = Put(@, method, schema)]

\* GrpcEndpoint.registerCommadableMethod, on the tables in L
RegisterCommadableMethod(L, method, schema, action) ==
    [L EXCEPT !.methods = Put(@, method, action), !.schemas = Put(@, method, schema)]

\* CommandableGrpcService.register: one method per command, from command `index` on
RECURSIVE CommandableRegister(_, _, _)
CommandableRegister(L, S, index) ==
    IF index > Len(CommandSet(S)) THEN L
    ELSE CommandableRegister(
             RegisterCommadableMethod(L, MethodName(S, CommandSet(S)[index]), NoSchema,
                                      [svc |-> S, cmd |-> CommandSet(S)[index]]),
             S, index + 1)

-----------------------------------------------------------------------------
(* The grpc.Server objects and the endpoint's start sequence.              *)
(* server is the object this._server refers to.  A server object that      *)
(* this._server no longer refers to can change in one way only, by its     *)
(* pending bindAsync callback, so all that is kept of it is that callback  *)
(* and whether the object takes calls.                                     *)

\* this._server == null
NoServer ==
    [set |-> FALSE, binding |-> FALSE, bound |-> FALSE, started |-> FALSE, shut |-> FALSE,
     nInvoke |-> 0, services |-> {}]

\* new grpc.Server() followed by bindAsync: the callback is pending
NewServer == [NoServer EXCEPT !.set = TRUE, !.binding = TRUE]

\* a server object takes an invoke call when it is bound, started and not shut
\* down, and has the invoke method
Takes(state) == state.bound /\ state.started /\ ~state.shut /\ state.nInvoke > 0

\* a server object that will take calls once its bind has completed
TakesOnceBound(state) ==
    state.binding /\ state.started /\ ~state.shut /\ state.nInvoke > 0

\* some server takes an invoke call
SomeServing == leaked \/ Takes(server)

InFlightOpens ==
    nResolving + (IF server.binding THEN 1 ELSE 0) + nBindLeak + nBindDead + nRegistering

\* the services that register methods of a service definition of their own,
\* as DummyGrpcService does
MethodServices == {"dummy"}

\* DummyGrpcService.register: the methods it registers with registerMethod
MethodsOf(S) == {"get_dummies", "get_dummy_by_id"}

\* DummyGrpcService.register: the schema each method is registered with
SchemaOf(name) ==
    IF name = "get_dummy_by_id" THEN [nil |-> FALSE, required |-> {"dummy_id"}]
    ELSE [nil |-> FALSE, required |-> {}]

\* DummyGrpcService.register: the interceptors it registers and what each one
\* does; incrementNumberOfCalls calls next() before it returns
InterceptorsOf(S) == <<"sync">>

\* a server object takes a call of the method `name` of a service definition
TakesMethod(state, name) ==
    state.bound /\ state.started /\ ~state.shut /\ name \in state.services

\* GrpcService.registerService of a method service: _interceptors is emptied,
\* register() fills it and _implementation, and the endpoint's registerService
\* adds the service to the server; addService throws on a null server, on a
\* started server and on a server that has one of the methods already
RegisterService(L, r) ==
    LET registered == [L EXCEPT !.chain.n = Len(InterceptorsOf(r)),
                                !.steps = Append(@, "register:" \o r)]
    IN  IF ~L.server.set \/ L.server.started \/ MethodsOf(r) \cap L.server.services # {}
        THEN [registered EXCEPT !.thrown = TRUE]
        ELSE [registered EXCEPT !.server.services = @ \cup MethodsOf(r)]

\* GrpcService.registerService, the closure a service registers: it runs the
\* service's register(); a commandable service has no service definition of its
\* own to add to the server.  The registration "this:S" is the service S
\* itself, whose register() the endpoint then calls directly: it adds the
\* service's interceptors to the ones _interceptors holds and adds no service
\* to the server
RunRegistration(L, r) ==
    IF r \in MethodServices
    THEN RegisterService(L, r)
    ELSE IF \E S \in MethodServices : r = "this:" \o S
    THEN LET S == CHOOSE T \in MethodServices : r = "this:" \o T
         IN  [L EXCEPT !.chain.n = @ + Len(InterceptorsOf(S)),
                       !.steps = Append(@, "register():" \o S)]
    ELSE [CommandableRegister(L, r, 1) EXCEPT !.steps = Append(@, "register:" \o r)]

\* performRegistrations: for (let registration of this._registrations) registration.register()
RECURSIVE RunRegistrations(_, _)
RunRegistrations(L, regs) ==
    IF regs = <<>> \/ L.thrown THEN L
    ELSE RunRegistrations(RunRegistration(L, Head(regs)), Tail(regs))

\* registerCommandableService that does not look at the table
RegisterCommandableServiceAlways(L) ==
    IF ~L.server.set \/ L.server.started \/ L.server.nInvoke > 0
    THEN [L EXCEPT !.thrown = TRUE]
    ELSE [L EXCEPT !.server.nInvoke = @ + 1, !.steps = Append(@, "invoke")]

\* registerCommandableService: binds the invoke method when the table is set.
\* addService throws on a null server, on a started server and on a server that
\* has the method already.
RegisterCommandableService(L) ==
    IF L.methods.nil THEN L
    ELSE IF ~L.server.set \/ L.server.started \/ L.server.nInvoke > 0
         THEN [L EXCEPT !.thrown = TRUE]
         ELSE [L EXCEPT !.server.nInvoke = @ + 1, !.steps = Append(@, "invoke")]

\* performRegistrations with the invoke method bound before the registrations run
PerformRegistrationsBindFirst(L) ==
    RunRegistrations(RegisterCommandableService(L), registrations)

\* performRegistrations
PerformRegistrations(L) ==
    LET a == RunRegistrations(L, registrations)
    IN  IF a.thrown THEN a ELSE RegisterCommandableService(a)

\* this._server.start(): throws on a null server and on a started server
StartServer(L) ==
    IF ~L.server.set \/ L.server.started
    THEN [L EXCEPT !.thrown = TRUE]
    ELSE [L EXCEPT !.server.started = TRUE, !.steps = Append(@, "start")]

\* open: the body of the callback of this._connectionResolver.register, up to
\* the call of open's callback: "Start operations"
StartOperations(L) ==
    LET a == PerformRegistrations(L)
    IN  IF a.thrown THEN a ELSE StartServer(a)

-----------------------------------------------------------------------------
(* What a step reports.                                                    *)

Report(op, res, err, steps) ==
    [by |-> "", op |-> op, res |-> res, err |-> err, steps |-> steps]

\* what a step of the service S reports
ServiceReport(S, op, res, err, steps) == [Report(op, res, err, steps) EXCEPT !.by = S]

Quiet == Report("step", "", NoErr, <<>>)

\* cycle is a history variable: the command names the table held when the
\* start sequence last succeeded on an unchanged registration list, and whether
\* the endpoint has since been closed ("closed") and opened again ("reopened").
\* It follows open and close calls that do not overlap, and starts afresh
\* when one is called while another is in flight; the phase "late" marks a
\* close() called while the resolution or the bind of the one open() in flight
\* was pending.
NoCycle == [phase |-> "none", names |-> {}]

\* an open or close is in flight
Overlaps == InFlightOpens + nClosing > 0

Names(table) == DOMAIN table.tab

\* open's callback has reported success with the command table `table`
CycleOpened(table) ==
    IF cycle.phase = "closed" THEN [cycle EXCEPT !.phase = "reopened"]
    ELSE IF cycle.phase = "late" THEN cycle
    ELSE [phase |-> "open", names |-> Names(table)]

\* close has been called on an endpoint that has a server
CycleClosed ==
    IF cycle.phase \in {"open", "reopened"} THEN [cycle EXCEPT !.phase = "closed"]
    ELSE IF cycle.phase = "late" THEN NoCycle
    ELSE cycle

\* a GrpcService after its constructor: _endpoint, _localEndpoint and _opened
\* are undefined.  peers is history: the services that were attached to the
\* shared endpoint when this one detached from it.
NewService ==
    [endpoint |-> "null", local |-> "undefined", opened |-> FALSE, pending |-> "none",
     peers |-> {}]

\* registerMethod(name, null, action): no schema
NullSchema == [nil |-> TRUE, required |-> {}]

\* a schema that requires the properties `required` of the request
ObjectSchema(required) == [nil |-> FALSE, required |-> required]

\* call.request == null
NullRequest == [nil |-> TRUE, props |-> {}]

\* a request message that has the properties `props`
Request(props) == [nil |-> FALSE, props |-> props]

\* n interceptors are registered and no call of the registered method runs
IdleChain(n) ==
    [n |-> n, stage |-> "idle", beh |-> <<>>, adv |-> {}, trace |-> <<>>,
     schema |-> NullSchema, req |-> NullRequest, out |-> <<>>]

IdleCall ==
    [stage |-> "idle", n |-> "", c |-> "", A |-> JNull, req |-> NoRequest,
     action |-> NoAction, hcid |-> "", hargs |-> JNull, out |-> NoOutcome,
     terr |-> NoErr, resp |-> NoResponse, cerr |-> NoErr, cres |-> JNull, log |-> <<>>]

Init ==
    /\ server = NoServer
    /\ leaked = FALSE
    /\ uri = "null"
    /\ registrations = <<>>
    /\ methods = NullTable
    /\ schemas = NullTable
    /\ nResolving = 0
    /\ nBindLeak = 0
    /\ nBindDead = 0
    /\ nRegistering = 0
    /\ nClosing = 0
    /\ client \in {[name |-> S, stub |-> "null"] : S \in ServiceNames}
    /\ call = IdleCall
    /\ ev = Report("init", "", NoErr, <<>>)
    /\ cycle = NoCycle
    /\ svc = [S \in ServiceNames \cup MethodServices |-> NewService]
    /\ chain = IdleChain(0)
    /\ split = [stage |-> "idle", text |-> <<>>, caText |-> <<>>, ca |-> <<>>]
    /\ inv = [i \in 1..MaxInvocations |-> [c |-> IdleCall, when |-> "", done |-> <<>>]]

-----------------------------------------------------------------------------
(* GrpcEndpoint: register, unregister, open, close.                        *)

EndpointCalls == <<client, call, svc, chain, split, inv>>

\* register(registration)
Register(r) ==
    /\ Len(registrations) < MaxRegs
    /\ registrations' = Append(registrations, r)
    /\ ev' = Quiet
    /\ cycle' = NoCycle
    /\ UNCHANGED <<server, leaked, uri, methods, schemas, nResolving, nBindLeak, nBindDead,
                   nRegistering, nClosing, EndpointCalls>>

\* _.remove(array, predicate): the elements the predicate holds for
LodashRemove(array, r) == SelectSeq(array, LAMBDA x : x = r)

\* unregister(registration): this._registrations = _.remove(this._registrations, r => r == registration)
Unregister(r) ==
    /\ registrations' = LodashRemove(registrations, r)
    /\ ev' = Quiet
    /\ cycle' = NoCycle
    /\ UNCHANGED <<server, leaked, uri, methods, schemas, nResolving, nBindLeak, nBindDead,
                   nRegistering, nClosing, EndpointCalls>>

\* open that does not look at isOpen()
OpenNoGuard ==
    /\ InFlightOpens < MaxOpens
    /\ nResolving' = nResolving + 1
    /\ ev' = Quiet
    /\ cycle' = IF Overlaps THEN NoCycle ELSE cycle
    /\ UNCHANGED <<server, leaked, uri, registrations, methods, schemas, nBindLeak, nBindDead,
                   nRegistering, nClosing, EndpointCalls>>

\* open(correlationId, callback), up to the call of the connection resolver
Open ==
    /\ IF server.set
       THEN /\ ev' = Report("open", "ok", NoErr, <<"already open">>)
            /\ cycle' = IF Overlaps THEN NoCycle
                        ELSE IF cycle.phase = "closed" THEN CycleOpened(methods)
                        ELSE IF cycle.phase = "late" THEN NoCycle
                        ELSE cycle
            /\ UNCHANGED nResolving
       ELSE /\ InFlightOpens < MaxOpens
            /\ nResolving' = nResolving + 1
            /\ ev' = Quiet
            /\ cycle' = IF Overlaps \/ cycle.phase = "late" THEN NoCycle ELSE cycle
    /\ UNCHANGED <<server, leaked, uri, registrations, methods, schemas, nBindLeak, nBindDead,
                   nRegistering, nClosing, EndpointCalls>>

CannotConnect(url) ==
    WithDetails(ConnectionException("c1", "CANNOT_CONNECT", "Opening GRPC service failed"),
                "url", url)

\* this._server = next: what becomes of the object this._server referred to
Reassign(next) ==
    /\ server' = next
    /\ leaked' = (leaked \/ Takes(server))
    /\ nBindLeak' = nBindLeak + (IF TakesOnceBound(server) THEN 1 ELSE 0)
    /\ nBindDead' = nBindDead + (IF server.binding /\ ~TakesOnceBound(server) THEN 1 ELSE 0)

\* open: the callback of this._connectionResolver.resolve.  outcome "error": the
\* resolver reports an error; "throw": loading the credentials throws; "ok": the
\* server is created and bindAsync called.
OpenResolved(outcome) ==
    /\ nResolving > 0
    /\ nResolving' = nResolving - 1
    /\ CASE outcome = "error" ->
              /\ ev' = Report("open", "err", PlainError("resolve"), <<>>)
              /\ UNCHANGED <<server, leaked, nBindLeak, nBindDead, uri>>
         [] outcome = "throw" ->
              /\ uri' = "uri"
              /\ Reassign(NoServer)
              /\ ev' = Report("open", "err", CannotConnect(uri'), <<>>)
         [] outcome = "ok" ->
              /\ uri' = "uri"
              /\ Reassign(NewServer)
              /\ ev' = Quiet
    /\ UNCHANGED <<registrations, methods, schemas, nRegistering, nClosing,
                   EndpointCalls, cycle>>

\* open: what the callback of bindAsync does after the bind itself
AfterBind(ok) ==
    IF ok
    THEN /\ nRegistering' = nRegistering + 1
         /\ ev' = Quiet
    ELSE /\ ev' = Report("open", "err", CannotConnect(uri), <<>>)
         /\ UNCHANGED nRegistering

\* open: the callback of bindAsync for the server this._server refers to
OpenBound(ok) ==
    /\ server.binding
    /\ server' = [server EXCEPT !.binding = FALSE, !.bound = ok]
    /\ AfterBind(ok)
    /\ UNCHANGED <<leaked, uri, registrations, methods, schemas, nResolving, nBindLeak,
                   nBindDead, nClosing, EndpointCalls, cycle>>

\* open: the callback of bindAsync for a server this._server no longer refers to
OpenBoundDetached(takes, ok) ==
    /\ IF takes
       THEN /\ nBindLeak > 0
            /\ nBindLeak' = nBindLeak - 1
            /\ leaked' = (leaked \/ ok)
            /\ UNCHANGED nBindDead
       ELSE /\ nBindDead > 0
            /\ nBindDead' = nBindDead - 1
            /\ UNCHANGED <<nBindLeak, leaked>>
    /\ AfterBind(ok)
    /\ UNCHANGED <<server, uri, registrations, methods, schemas, nResolving, nClosing,
                   EndpointCalls, cycle>>

\* open: the callback of this._connectionResolver.register, which reports err
OpenRegistered(err) ==
    /\ nRegistering > 0
    /\ nRegistering' = nRegistering - 1
    /\ LET L == StartOperations([methods |-> methods, schemas |-> schemas,
                                 server |-> server, chain |-> chain, steps |-> <<>>,
                                 thrown |-> FALSE])
       IN  /\ methods' = L.methods
           /\ schemas' = L.schemas
           /\ server' = L.server
           /\ ev' = IF L.thrown THEN Report("open", "thrown", NoErr, L.steps)
                    ELSE IF err THEN Report("open", "err", PlainError("register"), L.steps)
                    ELSE Report("open", "ok", NoErr, L.steps)
           /\ chain' = L.chain
           /\ cycle' = IF L.thrown \/ err THEN cycle ELSE CycleOpened(L.methods)
    /\ UNCHANGED <<leaked, uri, registrations, nResolving, nBindLeak, nBindDead, nClosing,
                   client, call, svc, split, inv>>

\* close that leaves the command table as it is
CloseKeepsTable(throws) ==
    /\ IF ~server.set
       THEN /\ ev' = Report("close", "ok", NoErr, <<"not open">>)
            /\ cycle' = IF nResolving = 1 /\ InFlightOpens = 1
                        THEN [phase |-> "late", names |-> {}]
                        ELSE cycle
            /\ UNCHANGED <<server, uri, nClosing>>
       ELSE /\ uri' = "null"
            /\ cycle' = IF ~throws /\ server.binding /\ InFlightOpens = 1
                        THEN [phase |-> "late", names |-> {}]
                        ELSE IF Overlaps THEN NoCycle
                        ELSE CycleClosed
            /\ IF throws
               THEN /\ ev' = Report("close", "err", PlainError("tryShutdown threw"),
                                 <<"tryShutdown threw">>)
                    /\ UNCHANGED <<server, nClosing>>
               ELSE /\ nClosing < MaxCloses
                    /\ server' = [server EXCEPT !.shut = TRUE]
                    /\ nClosing' = nClosing + 1
                    /\ ev' = Quiet
    /\ UNCHANGED <<leaked, registrations, methods, schemas, nResolving, nBindLeak, nBindDead,
                   nRegistering, EndpointCalls>>

\* close(correlationId, callback), up to the call of tryShutdown, which may throw
Close(throws) ==
    /\ IF ~server.set
       THEN /\ ev' = Report("close", "ok", NoErr, <<"not open">>)
            /\ cycle' = IF nResolving = 1 /\ InFlightOpens = 1
                        THEN [phase |-> "late", names |-> {}]
                        ELSE cycle
            /\ UNCHANGED <<server, uri, methods, schemas, nClosing>>
       ELSE /\ uri' = "null"
            /\ cycle' = IF ~throws /\ server.binding /\ InFlightOpens = 1
                        THEN [phase |-> "late", names |-> {}]
                        ELSE IF Overlaps THEN NoCycle
                        ELSE CycleClosed
            /\ methods' = NullTable
            /\ schemas' = NullTable
            /\ IF throws
               THEN /\ ev' = Report("close", "err", PlainError("tryShutdown threw"),
                                 <<"tryShutdown threw">>)
                    /\ UNCHANGED <<server, nClosing>>
               ELSE /\ nClosing < MaxCloses
                    /\ server' = [server EXCEPT !.shut = TRUE]
                    /\ nClosing' = nClosing + 1
                    /\ ev' = Quiet
    /\ UNCHANGED <<leaked, registrations, nResolving, nBindLeak, nBindDead, nRegistering,
                   EndpointCalls>>

\* the callback of tryShutdown that reports success whatever err is
CloseDoneSwallows(err) ==
    /\ nClosing > 0
    /\ nClosing' = nClosing - 1
    /\ Reassign(NoServer)
    /\ ev' = Report("close", "ok", NoErr,
                    IF err THEN <<"tryShutdown failed">> ELSE <<"tryShutdown done">>)
    /\ UNCHANGED <<uri, registrations, methods, schemas, nResolving, nRegistering,
                   EndpointCalls, cycle>>

\* close: the callback of tryShutdown, which reports err
CloseDone(err) ==
    /\ nClosing > 0
    /\ nClosing' = nClosing - 1
    /\ Reassign(NoServer)
    /\ ev' = IF err THEN Report("close", "err", PlainError("tryShutdown failed"),
                                <<"tryShutdown failed">>)
             ELSE Report("close", "ok", NoErr, <<"tryShutdown done">>)
    /\ UNCHANGED <<uri, registrations, methods, schemas, nResolving, nRegistering,
                   EndpointCalls, cycle>>

-----------------------------------------------------------------------------
(* The commandable client and the invoke handler.                          *)

Endpoint ==
    <<server, leaked, uri, registrations, methods, schemas, nResolving, nBindLeak, nBindDead,
      nRegistering, nClosing, cycle, split, inv>>

\* what the connection resolver of the client can do, and what loading the
\* credentials and constructing the stub can do after it: "error", the resolver
\* reports an error; "throw", it resolves and the rest throws; "ok"
ClientOutcomes == {"ok", "error", "throw"}

\* GrpcClient.open whose catch block passes on what was thrown
ClientOpenRethrows(outcome) ==
    /\ IF client.stub = "stub"
       THEN /\ ev' = Report("clientOpen", "ok", NoErr, <<"already open">>)
            /\ UNCHANGED client
       ELSE CASE outcome = "error" ->
                   /\ ev' = Report("clientOpen", "err", PlainError("resolve"), <<>>)
                   /\ UNCHANGED client
              [] outcome = "throw" ->
                   /\ client' = [client EXCEPT !.stub = "null"]
                   /\ ev' = Report("clientOpen", "err", PlainError("thrown"), <<"resolved">>)
              [] outcome = "ok" ->
                   /\ client' = [client EXCEPT !.stub = "stub"]
                   /\ ev' = Report("clientOpen", "ok", NoErr, <<"resolved">>)
    /\ UNCHANGED <<Endpoint, call, svc, chain>>

\* GrpcClient.open: nothing to do on an open client; else the connection is
\* resolved, and the stub is created, or loading the credentials or creating
\* the stub throws
ClientOpen(outcome) ==
    /\ IF client.stub = "stub"
       THEN /\ ev' = Report("clientOpen", "ok", NoErr, <<"already open">>)
            /\ UNCHANGED client
       ELSE CASE outcome = "error" ->
                   /\ ev' = Report("clientOpen", "err", PlainError("resolve"), <<>>)
                   /\ UNCHANGED client
              [] outcome = "throw" ->
                   /\ client' = [client EXCEPT !.stub = "null"]
                   /\ ev' = Report("clientOpen", "err",
                                   WithDetails(ConnectionException("c1", "CANNOT_CONNECT",
                                                                   "Opening GRPC client failed"),
                                               "url", "uri"),
                                   <<"resolved">>)
              [] outcome = "ok" ->
                   /\ client' = [client EXCEPT !.stub = "stub"]
                   /\ ev' = Report("clientOpen", "ok", NoErr, <<"resolved">>)
    /\ UNCHANGED <<Endpoint, call, svc, chain>>

\* GrpcClient.close
ClientClose ==
    /\ client' = [client EXCEPT !.stub = "null"]
    /\ ev' = Report("clientClose", "ok", NoErr, <<>>)
    /\ UNCHANGED <<Endpoint, call, svc, chain>>

\* CommandableGrpcClient.callCommand(n, c, A, callback), up to the call of the stub
CallCommand(n, c, A) ==
    /\ client.stub = "stub"
    /\ call.stage = "idle"
    /\ call' = [IdleCall EXCEPT !.stage = "sent", !.n = n, !.c = c, !.A = A,
                                !.req = EncodeCall(client.name, n, c, A)]
    /\ ev' = Quiet
    /\ UNCHANGED <<Endpoint, client, svc, chain>>

\* invokeCommandableMethod(call, callback), up to the return of the action; o is
\* what the action does
InvokeCommandableMethod(c, o) ==
    LET method == c.req.method
        action == Lookup(methods, method)
        correlationId == c.req.correlation_id
    IN  IF action = NoAction
        THEN LET r == NotFoundResponse(method, correlationId)
             IN  [c EXCEPT !.stage = "responded", !.terr = r.terr, !.resp = r.resp]
        ELSE LET invoked_ == [c EXCEPT !.action = action, !.hcid = correlationId,
                                       !.hargs = DecodeArgs(c.req), !.out = o,
                                       !.log = <<"instrument", "execute">>]
             IN  IF o.how = "throw"
                 THEN LET r == FailedResponse(method, correlationId, o.err)
                      IN  [invoked_ EXCEPT !.stage = "responded", !.terr = r.terr,
                                           !.resp = r.resp]
                 ELSE [invoked_ EXCEPT !.stage = "running"]

\* the outcomes of the action an invoke of `method` runs
OutcomesOf(method) ==
    IF Lookup(methods, method) = NoAction THEN {NoOutcome}
    ELSE Behaviour(Lookup(methods, method).cmd)

\* an invoke handler that empties the command table as it answers
InvokeClearsTable(o) ==
    /\ call.stage = "sent"
    /\ SomeServing
    /\ o \in OutcomesOf(call.req.method)
    /\ call' = InvokeCommandableMethod(call, o)
    /\ methods' = NullTable
    /\ ev' = Quiet
    /\ UNCHANGED <<server, leaked, uri, registrations, schemas, nResolving, nBindLeak,
                   nBindDead, nRegistering, nClosing, cycle, split, client, svc, chain, inv>>

\* a server takes the call and runs the invoke handler
Invoke(o) ==
    /\ call.stage = "sent"
    /\ SomeServing
    /\ o \in OutcomesOf(call.req.method)
    /\ call' = InvokeCommandableMethod(call, o)
    /\ ev' = Quiet
    /\ UNCHANGED <<Endpoint, client, svc, chain>>

\* instrumentError that completes without the error
InstrumentErrorSwallows(log, err, result) ==
    [log |-> (IF err # NoErr THEN Append(log, "exec_errors") ELSE log) \o <<"callback">>,
     err |-> NoErr, result |-> result]

\* GrpcService.instrumentError(correlationId, name, err, result, callback)
InstrumentError(log, err, result) ==
    [log |-> (IF err # NoErr THEN Append(log, "exec_errors") ELSE log) \o <<"callback">>,
     err |-> err, result |-> result]

\* CommandableGrpcService.register: the callback the action of an entry gives
\* command.execute
ExecuteCallback(log, err, result) == InstrumentError(Append(log, "endTiming"), err, result)

\* the command calls the callback of execute: the action of the entry, which
\* called instrument and then command.execute when the handler called it,
\* calls the handler's completion callback
HandlerCompletes ==
    /\ call.stage = "running"
    /\ LET done == ExecuteCallback(call.log, call.out.err, call.out.val)
           r == CompletionResponse(done.err, done.result)
       IN  call' = [call EXCEPT !.stage = "responded", !.terr = r.terr, !.resp = r.resp,
                                !.log = done.log]
    /\ ev' = Quiet
    /\ UNCHANGED <<Endpoint, client, svc, chain>>

\* the stub completes the call with the server's completion
Deliver ==
    /\ call.stage = "responded"
    /\ LET t == StubCallback(call.terr, call.resp)
           r == OnResponse(t.err, t.response)
       IN  call' = [call EXCEPT !.stage = "done", !.cerr = r.err, !.cres = r.result]
    /\ ev' = Quiet
    /\ UNCHANGED <<Endpoint, client, svc, chain>>

\* the stub completes the call with the server's completion and the caller's
\* callback throws when it is called.  Only the call in "Handle regular
\* response" is inside a try: its catch calls the callback again, with the
\* exception.  Thrown from any other branch, and from the call in the catch, the
\* exception leaves the callback callCommand gave the stub.  cerr and cres are
\* what the first invocation received, ev.steps what the callback of callCommand
\* did.
DeliverThrows ==
    /\ call.stage = "responded"
    /\ LET t == StubCallback(call.terr, call.resp)
           r == OnResponse(t.err, t.response)
           regular == /\ t.err = NoErr
                      /\ t.response.error.nil
                      /\ ~(t.response.result_empty \/ t.response.result_json = NullText)
                      /\ ParseJson(t.response.result_json).ok
       IN  /\ call' = [call EXCEPT !.stage = "done", !.cerr = r.err, !.cres = r.result]
           /\ ev' = Report("callCommand", "thrown", PlainError("callback threw"),
                           IF regular THEN <<"endTiming", "callback", "callback(ex)">>
                           ELSE <<"endTiming", "callback">>)
    /\ UNCHANGED <<Endpoint, client, svc, chain>>

\* no server takes the call: the stub completes it with an error
TransportFails ==
    /\ call.stage = "sent"
    /\ ~SomeServing
    /\ LET r == OnResponse(Unavailable, NoResponse)
       IN  call' = [call EXCEPT !.stage = "done", !.terr = NoErr, !.cerr = r.err,
                                !.cres = r.result]
    /\ ev' = Quiet
    /\ UNCHANGED <<Endpoint, client, svc, chain>>

\* texts a server of another implementation may send as result_json: the text
\* of a value, a text cut short and the empty text
ForeignValues == {Item, JNull, JStr(<<"a", Q, BS>>)}

ForeignTexts ==
    {NullText, <<>>, <<"{", Q, "i", "d", Q>>} \cup {Stringify(v) : v \in ForeignValues}

\* responses such a server may send
ForeignResponses ==
    [error : {NullDescription, ErrorDescriptionFactoryCreate(NotFound)},
     result_empty : BOOLEAN,
     result_json : ForeignTexts]

\* a server of another implementation takes the call and completes it with the
\* error terr or, when terr is null, the response resp
ForeignResponds(terr, resp) ==
    /\ call.stage = "sent"
    /\ call' = [call EXCEPT !.stage = "responded", !.terr = terr,
                            !.resp = IF terr = NoErr THEN resp ELSE NoResponse]
    /\ ev' = Quiet
    /\ UNCHANGED <<Endpoint, client, svc, chain>>

\* the caller is done with the call
Forget ==
    /\ call.stage = "done"
    /\ call' = IdleCall
    /\ ev' = Quiet
    /\ UNCHANGED <<Endpoint, client, svc, chain>>

-----------------------------------------------------------------------------
(* GrpcService: setReferences, unsetReferences, open, close.  The endpoint *)
(* the references hold is the endpoint above ("shared"); an endpoint a     *)
(* service creates for itself ("own") is another GrpcEndpoint object, of   *)
(* which only the outcome of its open and close is kept.  A component gets *)
(* its references once until they are unset, and one open or close of a    *)
(* service runs at a time.                                                 *)

InvalidStateException(cid, code, msg) == AppError("InvalidState", code, cid, msg)

Calls == <<client, call, chain, split, inv>>

\* setReferences(references): `injected` tells whether the references hold an endpoint
SetReferences(S, injected) ==
    /\ svc[S].endpoint = "null"
    /\ IF injected
       THEN /\ Len(registrations) < MaxRegs
            /\ svc' = [svc EXCEPT ![S].endpoint = "shared", ![S].local = "false",
                                  ![S].peers = {}]
            /\ registrations' = Append(registrations, S)
            /\ cycle' = NoCycle
       ELSE /\ svc' = [svc EXCEPT ![S].endpoint = "own", ![S].local = "true",
                                  ![S].peers = {}]
            /\ UNCHANGED <<registrations, cycle>>
    /\ ev' = Quiet
    /\ UNCHANGED <<server, leaked, uri, methods, schemas, nResolving, nBindLeak, nBindDead,
                   nRegistering, nClosing, Calls>>

\* unsetReferences()
UnsetReferences(S) ==
    /\ IF svc[S].endpoint = "shared"
       THEN /\ registrations' = LodashRemove(registrations, S)
            /\ cycle' = NoCycle
            /\ svc' = [svc EXCEPT ![S].endpoint = "null",
                                  ![S].peers = {T \in ServiceNames \ {S} :
                                                  svc[T].endpoint = "shared"}]
       ELSE /\ svc' = [svc EXCEPT ![S].endpoint = "null"]
            /\ UNCHANGED <<registrations, cycle>>
    /\ ev' = Quiet
    /\ UNCHANGED <<server, leaked, uri, methods, schemas, nResolving, nBindLeak, nBindDead,
                   nRegistering, nClosing, Calls>>

\* GrpcService.open that calls open on whatever endpoint the service has
ServiceOpenDelegates(S) ==
    /\ svc[S].pending = "none"
    /\ IF svc[S].opened
       THEN /\ ev' = ServiceReport(S, "service.open", "ok", NoErr, <<"already opened">>)
            /\ UNCHANGED svc
       ELSE /\ svc' = [svc EXCEPT ![S].endpoint = IF @ = "null" THEN "own" ELSE @,
                                  ![S].local = IF svc[S].endpoint = "null" THEN "true" ELSE @,
                                  ![S].pending = "open"]
            /\ ev' = Quiet
    /\ UNCHANGED <<Endpoint, Calls>>

\* GrpcService.open(correlationId, callback), up to the call of the endpoint's open
ServiceOpen(S) ==
    /\ svc[S].pending = "none"
    /\ IF svc[S].opened
       THEN /\ ev' = ServiceReport(S, "service.open", "ok", NoErr, <<"already opened">>)
            /\ UNCHANGED svc
       ELSE LET created == [svc EXCEPT ![S].endpoint = IF @ = "null" THEN "own" ELSE @,
                                       ![S].local = IF svc[S].endpoint = "null"
                                                    THEN "true" ELSE @]
            IN  IF created[S].local = "true"
                THEN /\ svc' = [created EXCEPT ![S].pending = "open"]
                     /\ ev' = Quiet
                ELSE /\ svc' = [created EXCEPT ![S].opened = TRUE]
                     /\ ev' = ServiceReport(S, "service.open", "ok", NoErr, <<>>)
    /\ UNCHANGED <<Endpoint, Calls>>

\* GrpcService.open: the callback of the open of the service's own endpoint,
\* which reports err
ServiceOpened(S, err) ==
    /\ svc[S].pending = "open"
    /\ svc' = [svc EXCEPT ![S].opened = (err = NoErr), ![S].pending = "none"]
    /\ ev' = ServiceReport(S, "service.open", IF err = NoErr THEN "ok" ELSE "err", err,
                           <<"endpoint.open">>)
    /\ UNCHANGED <<Endpoint, Calls>>

\* GrpcService.close that looks for the endpoint before it looks at _opened
ServiceCloseEndpointFirst(S) ==
    /\ svc[S].pending = "none"
    /\ IF svc[S].endpoint = "null"
       THEN /\ ev' = ServiceReport(S, "service.close", "err",
                        InvalidStateException("c1", "NO_ENDPOINT", "HTTP endpoint is missing"),
                        <<>>)
            /\ UNCHANGED svc
       ELSE IF ~svc[S].opened
       THEN /\ ev' = ServiceReport(S, "service.close", "ok", NoErr, <<"not opened">>)
            /\ UNCHANGED svc
       ELSE IF svc[S].local = "true"
       THEN /\ svc' = [svc EXCEPT ![S].pending = "close"]
            /\ ev' = Quiet
       ELSE /\ svc' = [svc EXCEPT ![S].opened = FALSE]
            /\ ev' = ServiceReport(S, "service.close", "ok", NoErr, <<>>)
    /\ UNCHANGED <<Endpoint, Calls>>

\* GrpcService.close(correlationId, callback), up to the call of the endpoint's close
ServiceClose(S) ==
    /\ svc[S].pending = "none"
    /\ IF ~svc[S].opened
       THEN /\ ev' = ServiceReport(S, "service.close", "ok", NoErr, <<"not opened">>)
            /\ UNCHANGED svc
       ELSE IF svc[S].endpoint = "null"
       THEN /\ ev' = ServiceReport(S, "service.close", "err",
                        InvalidStateException("c1", "NO_ENDPOINT", "HTTP endpoint is missing"),
                        <<>>)
            /\ UNCHANGED svc
       ELSE IF svc[S].local = "true"
       THEN /\ svc' = [svc EXCEPT ![S].pending = "close"]
            /\ ev' = Quiet
       ELSE /\ svc' = [svc EXCEPT ![S].opened = FALSE]
            /\ ev' = ServiceReport(S, "service.close", "ok", NoErr, <<>>)
    /\ UNCHANGED <<Endpoint, Calls>>

\* GrpcService.close: the callback of the close of the service's own endpoint,
\* which reports err
ServiceClosed(S, err) ==
    /\ svc[S].pending = "close"
    /\ svc' = [svc EXCEPT ![S].opened = FALSE, ![S].pending = "none"]
    /\ ev' = ServiceReport(S, "service.close", IF err = NoErr THEN "ok" ELSE "err", err,
                           <<"endpoint.close">>)
    /\ UNCHANGED <<Endpoint, Calls>>

\* what the open of a service's own endpoint reports
OpenOutcomes == {NoErr, CannotConnect("uri")}

\* what the close of a service's own endpoint reports
CloseOutcomes == {NoErr, PlainError("tryShutdown failed")}

-----------------------------------------------------------------------------
(* GrpcService.registerMethod and registerInterceptor: one call of a       *)
(* registered method.  chain.trace lists, in the order they happen, the    *)
(* start of interceptor k, its call of its advance continuation, its call  *)
(* of the response callback, and the start of the action; chain.out lists  *)
(* what the response callback of the call has been given.                  *)

\* what an interceptor does when it is called: it calls its advance
\* continuation before it returns ("sync") or later ("async"), or it calls the
\* response callback and never advances ("respond")
Behaviours == {"sync", "async", "respond"}

TheAction == <<"action", 0>>

\* registerInterceptor(action): this._interceptors.push(...)
RegisterInterceptor ==
    /\ chain.stage = "idle"
    /\ chain.n < MaxInterceptors
    /\ chain' = IdleChain(chain.n + 1)
    /\ UNCHANGED <<Endpoint, client, call, svc, ev>>

\* the iteratee of async.each on interceptor k: interceptor(call, callback, cb)
CallInterceptor(trace, k, b) ==
    LET started == Append(trace, <<"start", k>>)
    IN  CASE b = "sync" -> Append(started, <<"advance", k>>)
          [] b = "respond" -> Append(started, <<"respond", k>>)
          [] OTHER -> started

\* what an interceptor gives the response callback
Intercepted == <<PlainError("intercepted"), "null">>

\* what the interceptors that call the response callback give it, from
\* interceptor k on
RECURSIVE Responses(_, _)
Responses(beh, k) ==
    IF k > Len(beh) THEN <<>>
    ELSE (IF beh[k] = "respond" THEN <<Intercepted>> ELSE <<>>) \o Responses(beh, k + 1)

\* async.each(this._interceptors, iteratee, callback), up to the return of its
\* loop: the iteratee is called on every element in order, from element k on
RECURSIVE EachInterceptor(_, _, _)
EachInterceptor(trace, beh, k) ==
    IF k > Len(beh) THEN trace
    ELSE EachInterceptor(CallInterceptor(trace, k, beh[k]), beh, k + 1)

MethodSchemas == {NullSchema, ObjectSchema({"dummy_id"})}

MethodRequests == {NullRequest} \cup {Request(props) : props \in SUBSET {"correlation_id", "dummy_id"}}

\* what the action gives the response callback
ActionOutcomes == {<<NoErr, "result">>, <<PlainError("action failed"), "null">>}

\* value.correlation_id
CorrelationIdOf(value) == IF "correlation_id" \in value.props THEN "c1" ELSE ""

ValidationException(cid) == AppError("BadRequest", "INVALID_DATA", cid, "Invalid data")

\* schema.validateAndReturnException(correlationId, value, false)
ValidateAndReturnException(schema, cid, value) ==
    IF schema.required \subseteq value.props THEN NoErr ELSE ValidationException(cid)

\* the callback of async.each without the validation of the request
AllAdvancedNoValidation(c) ==
    IF c.adv = 1..c.n
    THEN [c EXCEPT !.stage = "acted", !.trace = Append(@, TheAction)]
    ELSE c

\* the callback of async.each, called once every iteratee has called its cb:
\* the request is validated when there is a schema and a request, and the
\* action is called unless the validation fails
AllAdvanced(c) ==
    IF c.adv # 1..c.n THEN c
    ELSE LET err == IF ~c.schema.nil /\ ~c.req.nil
                    THEN ValidateAndReturnException(c.schema, CorrelationIdOf(c.req), c.req)
                    ELSE NoErr
         IN  IF err # NoErr
             THEN [c EXCEPT !.stage = "rejected", !.out = Append(@, <<err, "null">>)]
             ELSE [c EXCEPT !.stage = "acted", !.trace = Append(@, TheAction)]

\* this._implementation[name](call, callback): the method, registered with
\* `schema`, is called with the request `req`, and every interceptor k does beh[k]
InvokeMethod(schema, req, beh) ==
    /\ chain.stage = "idle"
    /\ chain' = AllAdvanced([chain EXCEPT !.stage = "running",
                                          !.schema = schema,
                                          !.req = req,
                                          !.beh = beh,
                                          !.adv = {k \in 1..chain.n : beh[k] = "sync"},
                                          !.trace = EachInterceptor(<<>>, beh, 1),
                                          !.out = Responses(beh, 1)])
    /\ UNCHANGED <<Endpoint, client, call, svc, ev>>

\* interceptor k calls its advance continuation after it has returned
InterceptorAdvances(k) ==
    /\ chain.stage = "running"
    /\ chain.beh[k] = "async"
    /\ k \notin chain.adv
    /\ chain' = AllAdvanced([chain EXCEPT !.adv = @ \cup {k},
                                          !.trace = Append(@, <<"advance", k>>)])
    /\ UNCHANGED <<Endpoint, client, call, svc, ev>>

\* the action calls the response callback with outcome o
ActionResponds(o) ==
    /\ chain.stage = "acted"
    /\ chain' = [chain EXCEPT !.stage = "answered", !.out = Append(@, o)]
    /\ UNCHANGED <<Endpoint, client, call, svc, ev>>

\* the call is over: nothing of it is pending
MethodDone ==
    /\ chain.stage \in {"running", "rejected", "answered"}
    /\ \A k \in 1..chain.n : chain.beh[k] = "async" => k \in chain.adv
    /\ chain' = IdleChain(chain.n)
    /\ UNCHANGED <<Endpoint, client, call, svc, ev>>

-----------------------------------------------------------------------------

Next ==
    \/ \E r \in ServiceNames : Register(r)
    \/ \E r \in ServiceNames : Unregister(r)
    \/ Open
    \/ \E outcome \in {"ok", "error", "throw"} : OpenResolved(outcome)
    \/ \E ok \in BOOLEAN : OpenBound(ok)
    \/ \E takes \in BOOLEAN, ok \in BOOLEAN : OpenBoundDetached(takes, ok)
    \/ \E err \in BOOLEAN : OpenRegistered(err)
    \/ \E throws \in BOOLEAN : Close(throws)
    \/ \E err \in BOOLEAN : CloseDone(err)
    \/ \E outcome \in ClientOutcomes : ClientOpen(outcome)
    \/ ClientClose
    \/ \E n \in CallNames, c \in CorrelationIds, A \in ArgBags : CallCommand(n, c, A)
    \/ \E o \in OutcomesOf(call.req.method) : Invoke(o)
    \/ HandlerCompletes
    \/ Deliver
    \/ TransportFails
    \/ Forget
    \/ \E terr \in {NoErr, Boom}, resp \in ForeignResponses : ForeignResponds(terr, resp)
    \/ \E S \in ServiceNames, injected \in BOOLEAN : SetReferences(S, injected)
    \/ \E S \in ServiceNames : UnsetReferences(S)
    \/ \E S \in ServiceNames : ServiceOpen(S)
    \/ \E S \in ServiceNames, err \in OpenOutcomes : ServiceOpened(S, err)
    \/ \E S \in ServiceNames : ServiceClose(S)
    \/ \E S \in ServiceNames, err \in CloseOutcomes : ServiceClosed(S, err)
    \/ RegisterInterceptor
    \/ \E schema \in MethodSchemas, req \in MethodRequests, beh \in [1..chain.n -> Behaviours] :
            InvokeMethod(schema, req, beh)
    \/ \E k \in 1..chain.n : InterceptorAdvances(k)
    \/ \E o \in ActionOutcomes : ActionResponds(o)
    \/ MethodDone

Spec == Init /\ [][Next]_vars

-----------------------------------------------------------------------------
(* The calls on their own: the endpoint is set up and torn down one        *)
(* administrative call at a time while the client is closed, and the       *)
(* client calls it, with every caller input and every handler outcome,     *)
(* while no administrative call runs.                                      *)

Settled == InFlightOpens = 0 /\ nClosing = 0

ClientClosed == client.stub = "null" /\ call.stage = "idle"

NextCall ==
    \/ \E r \in ServiceNames : Settled /\ ClientClosed /\ Register(r)
    \/ Settled /\ ClientClosed /\ Open
    \/ \E outcome \in {"ok", "error", "throw"} : OpenResolved(outcome)
    \/ \E ok \in BOOLEAN : OpenBound(ok)
    \/ \E err \in BOOLEAN : OpenRegistered(err)
    \/ \E throws \in BOOLEAN : Settled /\ ClientClosed /\ Close(throws)
    \/ \E err \in BOOLEAN : CloseDone(err)
    \/ \E outcome \in ClientOutcomes : Settled /\ ClientOpen(outcome)
    \/ call.stage = "idle" /\ ClientClose
    \/ \E n \in CallNames, c \in CorrelationIds, A \in ArgBags : CallCommand(n, c, A)
    \/ \E o \in OutcomesOf(call.req.method) : Invoke(o)
    \/ HandlerCompletes
    \/ Deliver
    \/ TransportFails
    \/ Forget

SpecCall == Init /\ [][NextCall]_vars

-----------------------------------------------------------------------------
(* The lifecycle on its own: every interleaving of the administrative      *)
(* calls and their callbacks, with no client.                              *)

NextLife ==
    \/ \E r \in ServiceNames : Register(r)
    \/ \E r \in ServiceNames : Unregister(r)
    \/ Open
    \/ \E outcome \in {"ok", "error", "throw"} : OpenResolved(outcome)
    \/ \E ok \in BOOLEAN : OpenBound(ok)
    \/ \E takes \in BOOLEAN, ok \in BOOLEAN : OpenBoundDetached(takes, ok)
    \/ \E err \in BOOLEAN : OpenRegistered(err)
    \/ \E throws \in BOOLEAN : Close(throws)
    \/ \E err \in BOOLEAN : CloseDone(err)

SpecLife == Init /\ [][NextLife]_vars

-----------------------------------------------------------------------------
(* The services: they attach to and detach from the shared endpoint and    *)
(* are opened and closed, one call on a service at a time, while the       *)
(* shared endpoint is opened and closed one call at a time.                *)

NextService ==
    \/ \E S \in ServiceNames, injected \in BOOLEAN :
            Settled /\ svc[S].pending = "none" /\ SetReferences(S, injected)
    \/ \E S \in ServiceNames : Settled /\ svc[S].pending = "none" /\ UnsetReferences(S)
    \/ \E S \in ServiceNames : ServiceOpen(S)
    \/ \E S \in ServiceNames, err \in OpenOutcomes : ServiceOpened(S, err)
    \/ \E S \in ServiceNames : ServiceClose(S)
    \/ \E S \in ServiceNames, err \in CloseOutcomes : ServiceClosed(S, err)
    \/ Settled /\ Open
    \/ \E outcome \in {"ok", "error", "throw"} : OpenResolved(outcome)
    \/ \E ok \in BOOLEAN : OpenBound(ok)
    \/ \E err \in BOOLEAN : OpenRegistered(err)
    \/ \E throws \in BOOLEAN : Settled /\ Close(throws)
    \/ \E err \in BOOLEAN : CloseDone(err)

SpecService == Init /\ [][NextService]_vars

-----------------------------------------------------------------------------
(* A method service and the endpoint it creates for itself: here the       *)
(* endpoint variables describe that endpoint, which nothing but the        *)
(* service calls.  The service calls the endpoint's open and close from    *)
(* within its own open and close, and the endpoint calls the service's     *)
(* callback from within its own step: the two steps follow one another     *)
(* with nothing in between.                                                *)

\* setReferences(references) with no endpoint among the references: the service
\* creates its endpoint and registers its registration closure with it
SetReferencesOwn(S) ==
    /\ svc[S].endpoint = "null"
    /\ svc' = [svc EXCEPT ![S].endpoint = "own", ![S].local = "true", ![S].peers = {}]
    /\ registrations' = Append(registrations, S)
    /\ ev' = Quiet
    /\ cycle' = NoCycle
    /\ UNCHANGED <<server, leaked, uri, methods, schemas, nResolving, nBindLeak, nBindDead,
                   nRegistering, nClosing, Calls>>

\* GrpcService.open(correlationId, callback) of a service that has no endpoint
\* and is not opened, up to the call of the endpoint's open: the service
\* creates its endpoint and registers itself with it
ServiceOpenOwn(S) ==
    /\ svc[S].pending = "none"
    /\ ~svc[S].opened
    /\ svc[S].endpoint = "null"
    /\ svc' = [svc EXCEPT ![S].endpoint = "own", ![S].local = "true", ![S].pending = "open"]
    /\ registrations' = Append(registrations, "this:" \o S)
    /\ ev' = Quiet
    /\ cycle' = NoCycle
    /\ UNCHANGED <<server, leaked, uri, methods, schemas, nResolving, nBindLeak, nBindDead,
                   nRegistering, nClosing, Calls>>

\* the service S is within open or close and is about to call its endpoint
CallsEndpoint(S) ==
    svc[S].pending # "none" /\ ev = Quiet /\ InFlightOpens = 0 /\ nClosing = 0

\* the endpoint is calling the callback the service S gave it
EndpointReported(S) ==
    /\ svc[S].pending # "none"
    /\ ev.by = ""
    /\ ev.op = (IF svc[S].pending = "open" THEN "open" ELSE "close")
    /\ ev.res \in {"ok", "err"}

Synchronous == \E S \in MethodServices : CallsEndpoint(S) \/ EndpointReported(S)

NextOwn ==
    \/ \E S \in MethodServices : SetReferencesOwn(S)
    \/ \E S \in MethodServices : ~Synchronous /\ ServiceOpenOwn(S)
    \/ \E S \in MethodServices :
            /\ svc[S].endpoint = "own"
            /\ ~Synchronous
            /\ chain.n < MaxInterceptors
            /\ ServiceOpen(S)
    \/ \E S \in MethodServices : svc[S].pending = "open" /\ CallsEndpoint(S) /\ Open
    \/ \E outcome \in {"ok", "error", "throw"} : OpenResolved(outcome)
    \/ \E ok \in BOOLEAN : OpenBound(ok)
    \/ \E err \in BOOLEAN : OpenRegistered(err)
    \/ \E S \in MethodServices : EndpointReported(S) /\ ServiceOpened(S, ev.err)
    \/ \E S \in MethodServices : svc[S].endpoint = "own" /\ ~Synchronous /\ ServiceClose(S)
    \/ \E S \in MethodServices, throws \in BOOLEAN :
            svc[S].pending = "close" /\ CallsEndpoint(S) /\ Close(throws)
    \/ \E err \in BOOLEAN : CloseDone(err)
    \/ \E S \in MethodServices : EndpointReported(S) /\ ServiceClosed(S, ev.err)
    \/ \E S \in MethodServices : \E name \in MethodsOf(S), req \in MethodRequests :
            /\ ~Synchronous
            /\ TakesMethod(server, name)
            /\ InvokeMethod(SchemaOf(name), req, InterceptorsOf(S))
    \/ \E o \in ActionOutcomes : ~Synchronous /\ ActionResponds(o)
    \/ ~Synchronous /\ MethodDone

SpecOwn == Init /\ [][NextOwn]_vars

-----------------------------------------------------------------------------
(* The command table on its own: registerCommadableMethod called with any  *)
(* name, schema and action, the same name with different actions included. *)

\* registerCommadableMethod(method, schema, action) called on the endpoint; the
\* step reports the name, the action, and the action the name had before
RegisterCommadableMethodCalled(method, schema, action) ==
    /\ LET L == RegisterCommadableMethod([methods |-> methods, schemas |-> schemas],
                                         method, schema, action)
       IN  /\ methods' = L.methods
           /\ schemas' = L.schemas
    /\ ev' = Report("registerCommadableMethod", "", NoErr,
                    <<method, action.svc, action.cmd,
                      Lookup(methods, method).svc, Lookup(methods, method).cmd>>)
    /\ UNCHANGED <<server, leaked, uri, registrations, nResolving, nBindLeak, nBindDead,
                   nRegistering, nClosing, cycle, EndpointCalls>>

NextTable ==
    \E method \in {"svcA.any", "svcA.get_item", "svcB.any"}, schema \in {NoSchema, "schema"},
       S \in ServiceNames, cmd \in {"any", "get_item"} :
        RegisterCommadableMethodCalled(method, schema, [svc |-> S, cmd |-> cmd])

SpecTable == Init /\ [][NextTable]_vars

-----------------------------------------------------------------------------
(* open: the loop that splits the text of the CA file into certificates.   *)
(* A text is a sequence of "M", the marker -----BEGIN CERTIFICATE-----,    *)
(* " ", a whitespace character, and "x", any other character.              *)

\* caText.lastIndexOf('-----BEGIN CERTIFICATE-----'), counted from 1: 0 when
\* the text has no marker, where lastIndexOf gives -1
LastIndexOf(caText) ==
    IF \E i \in 1..Len(caText) : caText[i] = "M"
    THEN CHOOSE i \in 1..Len(caText) :
            caText[i] = "M" /\ \A j \in (i + 1)..Len(caText) : caText[j] # "M"
    ELSE 0

\* let caText = fs.readFileSync(sslCaFile).toString(), with ca = []
ReadCaFile(text) ==
    /\ split.stage = "idle"
    /\ split' = [stage |-> "loop", text |-> text, caText |-> text, ca |-> <<>>]
    /\ UNCHANGED <<server, leaked, uri, registrations, methods, schemas, nResolving, nBindLeak,
                   nBindDead, nRegistering, nClosing, cycle, client, call, svc, chain, ev, inv>>

\* while (caText != null && caText.trim().length > 0) { ... }: the test of the
\* loop and, when it holds, one run of its body
SplitCaText ==
    /\ split.stage = "loop"
    /\ IF \E i \in 1..Len(split.caText) : split.caText[i] # " "
       THEN LET crtIndex == LastIndexOf(split.caText)
            IN  IF crtIndex > 0
                THEN split' = [split EXCEPT
                                 !.ca = Append(@, SubSeq(split.caText, crtIndex,
                                                         Len(split.caText))),
                                 !.caText = SubSeq(split.caText, 1, crtIndex - 1)]
                ELSE UNCHANGED split
       ELSE split' = [split EXCEPT !.stage = "done"]
    /\ UNCHANGED <<server, leaked, uri, registrations, methods, schemas, nResolving, nBindLeak,
                   nBindDead, nRegistering, nClosing, cycle, client, call, svc, chain, ev, inv>>

NextSplit ==
    \/ \E text \in UNION {[1..n -> {"M", " ", "x"}] : n \in 0..MaxCaText} : ReadCaFile(text)
    \/ SplitCaText

SpecSplit == Init /\ [][NextSplit]_vars

-----------------------------------------------------------------------------
(* The invoke handler working on several calls at once.  The action of a   *)
(* call completes before it returns ("sync"), after it has returned        *)
(* ("async"), or before it throws ("sync-throw"); inv[i].done lists what   *)
(* the transport callback of call i has been given.  The command "any" is  *)
(* here the action that throws without completing.                         *)

\* the server hands call i to invokeCommandableMethod: the handler runs up to
\* the return of the action, or to the end of its catch block
Dispatch(i, request, o, when) ==
    /\ inv[i].c.stage = "idle"
    /\ Takes(server)
    /\ LET invoked_ == InvokeCommandableMethod([IdleCall EXCEPT !.req = request], o)
           completed == CompletionResponse(o.err, o.val)
           failed == FailedResponse(request.method, request.correlation_id, Boom)
       IN  inv' = [inv EXCEPT ![i] =
                    IF invoked_.stage = "responded"
                    THEN [c |-> invoked_, when |-> "",
                          done |-> <<[terr |-> invoked_.terr, resp |-> invoked_.resp]>>]
                    ELSE IF when = "async"
                    THEN [c |-> invoked_, when |-> when, done |-> <<>>]
                    ELSE [c |-> [invoked_ EXCEPT !.stage = "responded",
                                                 !.terr = completed.terr,
                                                 !.resp = completed.resp],
                          when |-> when,
                          done |-> IF when = "sync" THEN <<completed>>
                                   ELSE <<completed, failed>>]]
    /\ ev' = Quiet
    /\ UNCHANGED <<server, leaked, uri, registrations, methods, schemas, nResolving, nBindLeak,
                   nBindDead, nRegistering, nClosing, cycle, client, call, svc, chain, split>>

\* the completion of call i that answers with what the other call's action
\* gave, when the other call is being worked on
ActionCompletesShared(i) ==
    /\ inv[i].c.stage = "running"
    /\ LET j == CHOOSE k \in 1..MaxInvocations :
                    (k # i /\ inv[k].c.stage = "running")
                    \/ (k = i /\ \A m \in 1..MaxInvocations \ {i} : inv[m].c.stage # "running")
           r == CompletionResponse(inv[j].c.out.err, inv[j].c.out.val)
       IN  inv' = [inv EXCEPT ![i].c.stage = "responded", ![i].c.terr = r.terr,
                              ![i].c.resp = r.resp, ![i].done = Append(@, r)]
    /\ ev' = Quiet
    /\ UNCHANGED <<server, leaked, uri, registrations, methods, schemas, nResolving, nBindLeak,
                   nBindDead, nRegistering, nClosing, cycle, client, call, svc, chain, split>>

\* the action of call i calls its completion callback after it has returned
ActionCompletes(i) ==
    /\ inv[i].c.stage = "running"
    /\ LET r == CompletionResponse(inv[i].c.out.err, inv[i].c.out.val)
       IN  inv' = [inv EXCEPT ![i].c.stage = "responded", ![i].c.terr = r.terr,
                              ![i].c.resp = r.resp, ![i].done = Append(@, r)]
    /\ ev' = Quiet
    /\ UNCHANGED <<server, leaked, uri, registrations, methods, schemas, nResolving, nBindLeak,
                   nBindDead, nRegistering, nClosing, cycle, client, call, svc, chain, split>>

NextDispatch ==
    \/ registrations = <<>> /\ Register("svcA")
    \/ Settled /\ ~server.set /\ registrations # <<>> /\ Open
    \/ OpenResolved("ok")
    \/ OpenBound(TRUE)
    \/ OpenRegistered(FALSE)
    \/ \E i \in 1..MaxInvocations, n \in CallNames, c \in CorrelationIds,
          when \in {"sync", "async", "sync-throw"} :
            \E o \in {x \in OutcomesOf(MethodName("svcA", n)) : n = "any" => x.how = "throw"} :
                Dispatch(i, EncodeCall("svcA", n, c, JNull), o, when)
    \/ \E i \in 1..MaxInvocations : ActionCompletes(i)

SpecDispatch == Init /\ [][NextDispatch]_vars

-----------------------------------------------------------------------------
(* The client on its own, calling a server of another implementation.      *)

NextClient ==
    \/ \E outcome \in ClientOutcomes : ClientOpen(outcome)
    \/ call.stage = "idle" /\ ClientClose
    \/ \E n \in CallNames, c \in CorrelationIds, A \in ArgBags : CallCommand(n, c, A)
    \/ \E terr \in {NoErr, Boom}, resp \in ForeignResponses : ForeignResponds(terr, resp)
    \/ Deliver
    \/ DeliverThrows
    \/ Forget

SpecClient == Init /\ [][NextClient]_vars

-----------------------------------------------------------------------------
(* The calls of a registered method on their own.                          *)

NextMethod ==
    \/ RegisterInterceptor
    \/ \E schema \in MethodSchemas, req \in MethodRequests, beh \in [1..chain.n -> Behaviours] :
            InvokeMethod(schema, req, beh)
    \/ \E k \in 1..chain.n : InterceptorAdvances(k)
    \/ \E o \in ActionOutcomes : ActionResponds(o)
    \/ MethodDone

SpecMethod == Init /\ [][NextMethod]_vars

-----------------------------------------------------------------------------
(* Properties of the invoke handler and of callCommand (SpecCall).         *)
(* In a state with call.stage = "responded" the invoke handler has just    *)
(* called the transport completion callback with call.terr and call.resp;  *)
(* with call.stage = "done" callCommand has called its caller's callback   *)
(* with call.cerr and call.cres.                                           *)

Responded == call.stage = "responded"

Completed == call.stage = "done" /\ call.resp # NoResponse

HandlerRan == call.out.how \in {"ok", "err", "throw"}

C2_AsStated ==
    (Responded /\ call.out.how \in {"err", "throw"})
        => /\ call.resp.error.code = "METHOD_FAILED"
           /\ <<"method", call.req.method>> \in call.resp.error.details
           /\ call.resp.result_empty

\* C2, amended: a handler that throws an error that is no application exception
\* is answered with error.code = "METHOD_FAILED", the thrown error as the cause
\* and error.details.method = the requested method; a handler that throws an
\* application exception is answered with that exception's own description and
\* error.details.method added; a handler that passes an error to its completion
\* callback is answered with the description of that error as it is.  In all
\* three cases result_empty = true and result_json = null.
C2_FailureEnvelope ==
    (Responded /\ call.out.how \in {"err", "throw"})
        => LET thrown == call.out.how = "throw"
               e == call.out.err
               d == call.resp.error
           IN  /\ ~d.nil
               /\ call.resp.result_empty
               /\ call.resp.result_json = NullText
               /\ (thrown /\ e.kind # "app")
                    => /\ d.code = "METHOD_FAILED"
                       /\ d.category = "FailedInvocation"
                       /\ d.cause = e.msg
                       /\ d.details = {<<"method", call.req.method>>}
               /\ (thrown /\ e.kind = "app")
                    => /\ d.code = e.code
                       /\ d.category = e.category
                       /\ d.msg = e.msg
                       /\ <<"method", call.req.method>> \in d.details
               /\ (~thrown /\ e.kind = "app")
                    => /\ d.code = e.code
                       /\ d.category = e.category
                       /\ d.msg = e.msg
                       /\ d.details = e.details
               /\ (~thrown /\ e.kind # "app")
                    => /\ d.code = "UNKNOWN"
                       /\ d.msg = e.msg

C2_Witness ==
    /\ Responded
    /\ call.out = Throws(NotFound)
    /\ call.resp.error.code = "NOT_FOUND"

\* C3 as stated: whatever the handler does, the transport completion callback
\* gets a null transport error.
C3_AsStated == Responded => call.terr = NoErr

\* C4 as stated: callCommand on the command that always fails with NOT_FOUND
\* completes with a null result and an application error with code "NOT_FOUND";
\* callCommand on the command that returns the item completes with the item and
\* no error.
C4_AsStated ==
    (Completed /\ HandlerRan)
        => /\ call.n = "fail_item"
                => /\ call.cres = JNull
                   /\ call.cerr.kind = "app"
                   /\ call.cerr.code = "NOT_FOUND"
           /\ call.n = "get_item" => (call.cres = Item /\ call.cerr = NoErr)

\* C5: every response of the invoke handler with a non-null error has
\* result_empty = true and result_json = null.
C5_ErrorMeansEmpty ==
    (Responded /\ ~call.resp.error.nil)
        => (call.resp.result_empty /\ call.resp.result_json = NullText)

C5_Witness ==
    /\ Responded
    /\ call.out = Fails(NotFound, Item)
    /\ ~call.resp.error.nil
    /\ call.resp.result_json = NullText

\* C6: a handler that completes with no error and a null result is answered
\* with result_empty = true, result_json = null and error = null, and
\* callCommand then completes with no error and a null result.
C6_EmptyResult ==
    /\ (Responded /\ call.out = Returns(JNull))
            => /\ call.resp.error.nil
               /\ call.resp.result_empty
               /\ call.resp.result_json = NullText
    /\ (Completed /\ call.out = Returns(JNull))
            => (call.cerr = NoErr /\ call.cres = JNull)

C6_Witness == Completed /\ call.out = Returns(JNull) /\ call.cerr = NoErr

\* C7: for every non-null result R a handler returns, callCommand completes
\* with a value equal to R and no error.
C7_ResultRoundTrip ==
    (Completed /\ call.out.how = "ok" /\ call.out.val # JNull)
        => (call.cerr = NoErr /\ call.cres = call.out.val)

C7_Witness ==
    /\ Completed
    /\ call.out = Returns(JStr(<<"a", Q, BS>>))
    /\ call.cres = JStr(<<"a", Q, BS>>)

-----------------------------------------------------------------------------
(* Properties of open (SpecLife).  In a state with ev.op = "open" an       *)
(* open() has just called its callback: ev.res is what the callback got,   *)
(* ev.steps what the open did right before.                                *)

OpenSucceeded == ev.op = "open" /\ ev.res = "ok"

Started == OpenSucceeded /\ ev.steps # <<"already open">>

HasCommands(r) ==
    \A i \in 1..Len(CommandSet(r)) :
        Lookup(methods, r \o "." \o CommandSet(r)[i]) = [svc |-> r, cmd |-> CommandSet(r)[i]]

\* C9 as stated, for an open() that no other open() or close() overlaps: when
\* it reports success, every registration in the list has run and every command
\* it contributes is in the command table.
C9_AsStated ==
    (OpenSucceeded /\ Settled)
        => \A i \in 1..Len(registrations) : HasCommands(registrations[i])

\* C10: an open() that reports success after its start sequence has run the
\* registrations in list order, then bound the invoke method if and only if
\* the command table is set, then started the server, and nothing else; when
\* the server starts the table holds every command of every registration.
C10_StartOrder ==
    Started
        => /\ ev.steps = [i \in 1..Len(registrations) |-> "register:" \o registrations[i]]
                         \o (IF methods.nil THEN <<>> ELSE <<"invoke">>)
                         \o <<"start">>
           /\ \A i \in 1..Len(registrations) : HasCommands(registrations[i])
           /\ server.started
           /\ (server.nInvoke = 1) = ~methods.nil

C10_Witness ==
    /\ Started
    /\ registrations = <<"svcB", "svcA">>
    /\ ev.steps = <<"register:svcB", "register:svcA", "invoke", "start">>
    /\ Takes(server)

-----------------------------------------------------------------------------
(* Properties of close (SpecCall: one administrative call at a time).      *)

Closed == ev.op = "close" /\ ev.steps # <<"not open">>

\* C11: when close() of an open endpoint has called its callback, and for as
\* long as the endpoint has no server, the command table and the schema table
\* are empty; an invoke dispatched while the table is empty, for a command of
\* a registered service, answers METHOD_NOT_FOUND.
C11_CommandsGone ==
    /\ (Closed \/ ~server.set) => (methods = NullTable /\ schemas = NullTable)
    /\ (Responded /\ methods = NullTable)
            => /\ call.action = NoAction
               /\ call.resp.error.code = "METHOD_NOT_FOUND"
               /\ call.resp.result_empty

C11_Witness ==
    /\ Responded
    /\ methods = NullTable
    /\ registrations = <<"svcA">>
    /\ server.started
    /\ call.req.method = "svcA.get_item"
    /\ call.resp.error.code = "METHOD_NOT_FOUND"

\* C13 as stated: an open() that fails while loading the credentials or while
\* binding reports CANNOT_CONNECT with the target URI as the detail "url", and
\* leaves the endpoint without a server (isOpen() is false).
C13_AsStated ==
    (ev.op = "open" /\ ev.res = "err" /\ ev.err.code = "CANNOT_CONNECT")
        => /\ ev.err.kind = "app"
           /\ <<"url", "uri">> \in ev.err.details
           /\ ~server.set

\* C14: when close() of an open endpoint calls its callback, the command table
\* and the schema table are empty whatever tryShutdown did; the callback gets
\* the error tryShutdown threw or reported, and no error when it did neither.
C14_CloseReports ==
    Closed
        => /\ methods = NullTable
           /\ schemas = NullTable
           /\ ev.steps = <<"tryShutdown threw">>
                => (ev.res = "err" /\ ev.err = PlainError("tryShutdown threw"))
           /\ ev.steps = <<"tryShutdown failed">>
                => (ev.res = "err" /\ ev.err = PlainError("tryShutdown failed"))
           /\ ev.steps = <<"tryShutdown done">> => (ev.res = "ok" /\ ev.err = NoErr)

C14_Witness ==
    /\ Closed
    /\ ev.steps = <<"tryShutdown failed">>
    /\ ev.res = "err"
    /\ registrations # <<>>
    /\ methods = NullTable

-----------------------------------------------------------------------------
(* Properties of unregister (SpecLife).                                    *)

Registered(r) == \E i \in 1..Len(registrations) : registrations[i] = r

\* the list with every occurrence of r taken out, the rest in order
Without(array, r) == SelectSeq(array, LAMBDA x : x # r)

\* C15 as stated: unregister(r) of a registration that is in the list takes r
\* out of the list and leaves the other registrations in their order.
C15_AsStated ==
    [][\A r \in ServiceNames :
         (Registered(r) /\ Unregister(r)) => registrations' = Without(registrations, r)]_vars

\* C16 as stated: unregister(r) of a registration that is not in the list
\* leaves the list as it was.
C16_AsStated ==
    [][\A r \in ServiceNames :
         (~Registered(r) /\ Unregister(r)) => registrations' = registrations]_vars

-----------------------------------------------------------------------------
(* Properties of an open, close, open cycle (SpecCall).                    *)

Reopened == OpenSucceeded /\ cycle.phase = "reopened"

\* C12 as stated: when open() reports success after an earlier successful
\* open() and a close(), with no register() in between, every registration in
\* the list has been run again by that open() and the command table holds the
\* command names it held after the first open().
C12_AsStated ==
    Reopened
        => /\ Names(methods) = cycle.names
           /\ \A i \in 1..Len(registrations) :
                \E k \in 1..Len(ev.steps) : ev.steps[k] = "register:" \o registrations[i]

-----------------------------------------------------------------------------
(* Properties of the services (SpecService).                               *)

Attached(S) == svc[S].endpoint = "shared"

\* the service was attached to the shared endpoint and has unset its references
Detached(S) == svc[S].endpoint = "null" /\ svc[S].local = "false"

Ran(S) == \E k \in 1..Len(ev.steps) : ev.steps[k] = "register:" \o S

\* C17 as stated: when an open() of the shared endpoint reports success after
\* one of two services attached to it has detached while the other stays
\* attached, it has run the registration of the attached one, whose commands
\* are all in the command table, and it has not run the registration of the
\* detached one.
C17_AsStated ==
    Started
        => \A D \in ServiceNames : \A S \in svc[D].peers :
             (Detached(D) /\ Attached(S))
                => (Ran(S) /\ HasCommands(S) /\ ~Ran(D))

ServiceOpenReported(S) ==
    ev.by = S /\ ev.op = "service.open" /\ ev.steps # <<"already opened">>

ServiceCloseReported(S) ==
    ev.by = S /\ ev.op = "service.close" /\ ev.steps # <<"not opened">>

\* C18: when open() or close() of a service that is not opened, respectively
\* opened, calls its callback: with an injected endpoint (_localEndpoint false)
\* it has called neither open nor close of the endpoint, it reports success and
\* the service is opened after open and not opened after close; with its own
\* endpoint it has called the endpoint's open, respectively close, it reports
\* what the endpoint reported, and after open the service is opened exactly when
\* the endpoint reported no error.
C18_Delegation ==
    \A S \in ServiceNames :
        /\ ServiceOpenReported(S)
             => IF svc[S].local = "true"
                THEN /\ ev.steps = <<"endpoint.open">>
                     /\ svc[S].opened = (ev.err = NoErr)
                     /\ (ev.res = "ok") = (ev.err = NoErr)
                ELSE ev.steps = <<>> /\ ev.res = "ok" /\ svc[S].opened
        /\ (ServiceCloseReported(S) /\ ev.err.code # "NO_ENDPOINT")
             => IF svc[S].local = "true"
                THEN ev.steps = <<"endpoint.close">> /\ ~svc[S].opened
                ELSE ev.steps = <<>> /\ ev.res = "ok" /\ ~svc[S].opened

\* svcA, attached to the shared endpoint, is opened while the endpoint has no
\* server; the open of svcB's own endpoint has just failed
C18_Witness ==
    /\ ServiceOpenReported("svcB")
    /\ svc["svcB"].endpoint = "own"
    /\ ev.steps = <<"endpoint.open">>
    /\ ev.err.code = "CANNOT_CONNECT"
    /\ ~svc["svcB"].opened
    /\ Attached("svcA")
    /\ svc["svcA"].opened
    /\ ~server.set

NeverAttached(S) == svc[S].endpoint = "null" /\ svc[S].local = "undefined"

\* C19 as stated: close() of a service that has no endpoint at all, its
\* references never set, fails with NO_ENDPOINT.
C19_AsStated ==
    \A S \in ServiceNames :
        (ev.by = S /\ ev.op = "service.close" /\ NeverAttached(S))
            => (ev.res = "err" /\ ev.err.code = "NO_ENDPOINT")

\* C19 amended: close() of a service that is not opened is a no-op that reports
\* success, also when the service has no endpoint; close() fails with
\* NO_ENDPOINT exactly when the service is opened and has no endpoint, which is
\* after unsetReferences() on an opened service, and it then stays opened.
C19_NoEndpoint ==
    \A S \in ServiceNames :
        (ev.by = S /\ ev.op = "service.close")
            => /\ (ev.err.code = "NO_ENDPOINT")
                    = (svc[S].opened /\ svc[S].endpoint = "null")
               /\ (ev.err.code = "NO_ENDPOINT")
                    => (ev.res = "err" /\ ev.err.category = "InvalidState")
               /\ (ev.steps = <<"not opened">>)
                    => (ev.res = "ok" /\ ev.err = NoErr /\ ~svc[S].opened)
               /\ NeverAttached(S) => ev.steps = <<"not opened">>

C19_Witness ==
    /\ ev.by = "svcA"
    /\ ev.op = "service.close"
    /\ ev.err.code = "NO_ENDPOINT"
    /\ svc["svcA"].opened
    /\ Detached("svcA")

-----------------------------------------------------------------------------
(* Properties of a call of a registered method (SpecMethod).               *)

Before(e, i) == \E j \in 1..(i - 1) : chain.trace[j] = e

\* C20 as stated: interceptor k + 1 does not start before interceptor k has
\* called its advance continuation, and the action does not start before the
\* last interceptor has called its advance continuation.
C20_AsStated ==
    \A i \in 1..Len(chain.trace) :
        /\ \A k \in 1..(chain.n - 1) :
             chain.trace[i] = <<"start", k + 1>> => Before(<<"advance", k>>, i)
        /\ (chain.trace[i] = TheAction /\ chain.n > 0) => Before(<<"advance", chain.n>>, i)

InTrace(e) == \E i \in 1..Len(chain.trace) : chain.trace[i] = e

\* C21 as stated: in a call in which interceptor k has called the response
\* callback instead of its advance continuation, the action is not started and
\* no interceptor registered after k is started.
C21_AsStated ==
    \A k \in 1..chain.n :
        InTrace(<<"respond", k>>)
            => /\ ~InTrace(TheAction)
               /\ \A j \in (k + 1)..chain.n : ~InTrace(<<"start", j>>)

EveryInterceptorAdvanced == chain.stage # "idle" /\ chain.adv = 1..chain.n

\* C22: in a call of a method registered with a schema, once every interceptor
\* has advanced: when the request lacks a property the schema requires, the
\* response callback has been given the validation error and a null result and
\* nothing else, and the action is not started; when the request has every
\* required property, the action is started.
C22_Validation ==
    (EveryInterceptorAdvanced /\ ~chain.schema.nil /\ ~chain.req.nil)
        => IF chain.schema.required \subseteq chain.req.props
           THEN InTrace(TheAction) /\ chain.stage \in {"acted", "answered"}
           ELSE /\ ~InTrace(TheAction)
                /\ chain.stage = "rejected"
                /\ chain.out = <<<<ValidationException(CorrelationIdOf(chain.req)), "null">>>>

C22_Witness ==
    /\ chain.stage = "rejected"
    /\ chain.n = 2
    /\ chain.beh = <<"async", "sync">>
    /\ chain.schema = ObjectSchema({"dummy_id"})
    /\ chain.req = Request({"correlation_id"})
    /\ chain.out = <<<<ValidationException("c1"), "null">>>>
    /\ ~InTrace(TheAction)

-----------------------------------------------------------------------------
(* Properties of callCommand for any response (SpecClient).                *)

Delivered == call.stage = "done"

\* C23: callCommand's callback gets: the error the transport reports, as it is,
\* and a null result; else, for a response whose error field is set, the error
\* rebuilt from that field and a null result, whatever result_json is; else,
\* for a response with result_empty or a null result_json, no error and a null
\* result; else the value result_json is the text of and no error, or, when
\* result_json is not the text of a value, the parse error and a null result.
C23_Outcomes ==
    Delivered
        => IF call.terr # NoErr
           THEN call.cerr = StatusError(call.terr.msg) /\ call.cres = JNull
           ELSE IF ~call.resp.error.nil
           THEN /\ call.cerr.kind = "app"
                /\ call.cerr.code = call.resp.error.code
                /\ call.cerr.category = call.resp.error.category
                /\ call.cerr.msg = call.resp.error.msg
                /\ call.cres = JNull
           ELSE IF call.resp.result_empty \/ call.resp.result_json = NullText
           THEN call.cerr = NoErr /\ call.cres = JNull
           ELSE IF \E v \in ForeignValues : call.resp.result_json = Stringify(v)
           THEN /\ call.cerr = NoErr
                /\ call.resp.result_json = Stringify(call.cres)
                /\ call.cres \in ForeignValues
           ELSE call.cerr = PlainError("SyntaxError") /\ call.cres = JNull

\* a response with an error and a result_json that is not the text of a value
C23_Witness ==
    /\ Delivered
    /\ call.terr = NoErr
    /\ ~call.resp.error.nil
    /\ ~call.resp.result_empty
    /\ call.resp.result_json = <<"{", Q, "i", "d", Q>>
    /\ call.cerr.code = "NOT_FOUND"

-----------------------------------------------------------------------------
(* Properties of isOpen() for calls that do not overlap (SpecCall).        *)

\* C24: with open() and close() called one at a time: when open() reports
\* success the endpoint has a server (isOpen() is true); an endpoint that has
\* a server loses it only in the completion of a close() call; and open()
\* called on an endpoint that has a server reports success and resolves no
\* address, creates no server and runs no registration: the server, the URI,
\* the tables and the pending resolver calls are as before.
C24_IsOpen ==
    [][/\ OpenSucceeded' => server'.set
       /\ (server.set /\ ~server'.set) => nClosing > 0
       /\ (server.set /\ Open)
            => /\ ev'.op = "open" /\ ev'.res = "ok" /\ ev'.err = NoErr
               /\ UNCHANGED <<server, uri, methods, schemas, registrations, nResolving,
                              nRegistering, nBindLeak, nBindDead>>]_vars

\* open() has returned at once on an endpoint that is open and serving
C24_Witness ==
    /\ OpenSucceeded
    /\ ev.steps = <<"already open">>
    /\ Takes(server)
    /\ ~methods.nil

\* C25: whenever the open of a method service that has its own endpoint
\* reports success, every method its register() registers is bound on a server
\* that listens and is started; and a call of such a method whose request
\* passes the schema has run each interceptor once and then the action, and
\* has given the response callback the action's outcome and nothing else.
C25_AsStated ==
    \A S \in MethodServices :
        /\ (ev.by = S /\ ev.op = "service.open" /\ ev.res = "ok" /\ svc[S].local = "true")
             => \A name \in MethodsOf(S) : TakesMethod(server, name)
        /\ chain.stage = "answered"
             => /\ chain.trace = <<<<"start", 1>>, <<"advance", 1>>, TheAction>>
                /\ Len(chain.out) = 1
                /\ chain.out[1] \in ActionOutcomes
\* C26: when open() of the client has resolved the connection and then fails,
\* the error it reports is a connection error with the code CANNOT_CONNECT
\* whose details carry the resolved URI, and the client has no stub, that is
\* isOpen() is false; when open() reports success the client has a stub; and a
\* step of close() reports success and leaves the client without a stub, so a
\* close() of a client that has no stub changes nothing.
C26_OpenClose ==
    [][/\ (ev'.op = "clientOpen" /\ ev'.res = "err" /\ ev'.steps = <<"resolved">>)
            => /\ ev'.err.category = "NoResponse"
               /\ ev'.err.code = "CANNOT_CONNECT"
               /\ <<"url", "uri">> \in ev'.err.details
               /\ client'.stub = "null"
       /\ (ev'.op = "clientOpen" /\ ev'.res = "ok") => client'.stub = "stub"
       /\ ev'.op = "clientClose"
            => /\ ev'.res = "ok" /\ ev'.err = NoErr
               /\ client'.stub = "null"
               /\ client.stub = "null" => UNCHANGED client]_vars

C26_Witness ==
    /\ ev.op = "clientOpen"
    /\ ev.res = "err"
    /\ ev.err.code = "CANNOT_CONNECT"
    /\ client.stub = "null"
\* C27: with open() and close() called one at a time: the step of open() that
\* runs the registrations starts from a server without the invoke method and
\* binds it once when the command table holds a command after the last
\* registration has run, and not at all when the table holds none; and in every
\* state, registerCommadableMethod called with any name and action would leave
\* the server as it is.
C27_InvokeBinding ==
    [][/\ nRegistering' < nRegistering
            => /\ server.nInvoke = 0
               /\ server'.nInvoke = (IF Names(methods') # {} THEN 1 ELSE 0)
               /\ Len(SelectSeq(ev'.steps, LAMBDA x : x = "invoke")) = server'.nInvoke
       /\ \A S \in ServiceNames : \A index \in 1..Len(CommandSet(S)) :
            RegisterCommadableMethod(
                [methods |-> methods, schemas |-> schemas, server |-> server],
                MethodName(S, CommandSet(S)[index]), NoSchema,
                [svc |-> S, cmd |-> CommandSet(S)[index]]).server = server]_vars

C27_Witness ==
    /\ Started
    /\ cycle.phase = "reopened"
    /\ server.nInvoke = 1
    /\ Names(methods) # {}
\* C28: after registerCommadableMethod(n, schema, a) the command table holds
\* the action a under n, which is the action an invoke of n looks up, whatever
\* action n had before; the entries of all other names are as they were; the
\* names of the table are those it had and n; and the command table and the
\* schema table always have the same names.
C28_LastWrite ==
    [][/\ ev'.op = "registerCommadableMethod"
            => /\ Lookup(methods', ev'.steps[1]) = [svc |-> ev'.steps[2], cmd |-> ev'.steps[3]]
               /\ \A other \in Names(methods) \ {ev'.steps[1]} :
                     Lookup(methods', other) = Lookup(methods, other)
               /\ Names(methods') = Names(methods) \cup {ev'.steps[1]}
       /\ Names(methods') = Names(schemas')]_vars

C28_Witness ==
    /\ ev.op = "registerCommadableMethod"
    /\ ev.steps[4] # ""
    /\ <<ev.steps[4], ev.steps[5]>> # <<ev.steps[2], ev.steps[3]>>
    /\ Lookup(methods, ev.steps[1]) = [svc |-> ev.steps[2], cmd |-> ev.steps[3]]
    /\ Names(methods) # {ev.steps[1]}
\* C29: when the start sequence of open() has run the registrations, the
\* command table holds, for every registered service S and every command of
\* its command set, the entry "S.<command>" with that command's action, and no
\* other entry; and when the action of an entry has completed a call, it has
\* started the timing, executed the command, stopped the timing, counted the
\* error if there was one and called the completion callback, in this order,
\* and the call is completed as the completion callback does for the
\* command's own error and result.
C29_Entries ==
    /\ Started
         => /\ Names(methods) = UNION {{MethodName(registrations[i], CommandSet(registrations[i])[j]) :
                                          j \in 1..Len(CommandSet(registrations[i]))} :
                                      i \in 1..Len(registrations)}
            /\ \A i \in 1..Len(registrations) : HasCommands(registrations[i])
    /\ (call.stage \in {"responded", "done"} /\ call.out.how \in {"ok", "err"})
         => /\ call.log = <<"instrument", "execute", "endTiming">>
                             \o (IF call.out.err # NoErr THEN <<"exec_errors">> ELSE <<>>)
                             \o <<"callback">>
            /\ call.terr = CompletionResponse(call.out.err, call.out.val).terr
            /\ call.resp = CompletionResponse(call.out.err, call.out.val).resp

C29_Witness ==
    /\ call.stage = "responded"
    /\ call.action = [svc |-> "svcA", cmd |-> "fail_item"]
    /\ call.log = <<"instrument", "execute", "endTiming", "exec_errors", "callback">>
    /\ Names(methods) = {"svcA.get_item", "svcA.fail_item", "svcA.any"}
\* C30: whenever the loop that splits the CA text tests its condition, the
\* condition is false or the run of the body shortens the text, so that the
\* loop comes to an end; and when the loop has ended the list has one entry
\* for every certificate marker of the text that was read.
C30_AsStated ==
    /\ split.stage = "loop"
         => \/ \A i \in 1..Len(split.caText) : split.caText[i] = " "
            \/ LastIndexOf(split.caText) > 0
    /\ split.stage = "done"
         => Len(split.ca) = Cardinality({i \in 1..Len(split.text) : split.text[i] = "M"})
-----------------------------------------------------------------------------
(* Properties of the dispatch path, of overlapping calls and of what the   *)
(* callbacks of open and close report.                                     *)

\* C31: a step of the invoke handler, be it the handler's call with any method
\* name and any behaviour of the action, or the completion of the action,
\* leaves the command table, the schema table, the registration list and the
\* server as they are.
C31_DispatchFrame ==
    [][(\/ call.stage = "sent" /\ call'.stage \in {"running", "responded"}
        \/ call.stage = "running" /\ call'.stage = "responded")
          => UNCHANGED <<methods, schemas, registrations, server>>]_vars

C31_Witness ==
    /\ Responded
    /\ call.out.how = "throw"
    /\ Names(methods) = {"svcB.any"}
    /\ registrations = <<"svcB">>
    /\ Takes(server)
\* C32: whatever calls the handler works on at once and in whatever order
\* their actions complete, everything the transport callback of a call has
\* been given is built from that call's own request and from what its own
\* action did: the not-found answer for its own method name and correlation
\* id when the table has no entry for it, the failure answer for its own
\* method name, correlation id and exception when its action threw, and
\* else, first, the answer for its own action's error and result.
C32_OwnResponse ==
    \A i \in 1..MaxInvocations :
        LET c == inv[i].c
        IN  inv[i].done # <<>>
              => /\ Lookup(methods, c.req.method) = NoAction
                      => inv[i].done = <<NotFoundResponse(c.req.method, c.req.correlation_id)>>
                 /\ c.out.how = "throw"
                      => inv[i].done = <<FailedResponse(c.req.method, c.req.correlation_id,
                                                        c.out.err)>>
                 /\ c.out.how \in {"ok", "err"}
                      => inv[i].done[1] = CompletionResponse(c.out.err, c.out.val)
                 /\ \A k \in 2..Len(inv[i].done) :
                      inv[i].done[k] = FailedResponse(c.req.method, c.req.correlation_id, Boom)

C32_Witness ==
    /\ inv[1].c.stage = "running"
    /\ inv[1].c.req.method = "svcA.fail_item"
    /\ inv[2].c.stage = "responded"
    /\ inv[2].when = "async"
    /\ inv[2].c.req.method = "svcA.get_item"
    /\ inv[2].c.req.correlation_id # inv[1].c.req.correlation_id
    /\ inv[2].done = <<CompletionResponse(NoErr, Item)>>

\* C35: when the handler has answered a call, the transport callback of that
\* call has been called once.
C35_AsStated ==
    \A i \in 1..MaxInvocations : inv[i].c.stage = "responded" => Len(inv[i].done) = 1
\* C33: when the resolve callback of an open() runs on an endpoint that has a
\* server, which an open() called in the meantime has created, it creates no
\* server and leaves this._server and the server it refers to as they are; and
\* the start sequence of an open() runs on a server on which it has not run
\* before, so that no registration runs twice on one server.
C33_AsStated ==
    [][/\ (nResolving' < nResolving /\ server.set)
            => /\ server' = server
               /\ nBindLeak' = nBindLeak
               /\ nBindDead' = nBindDead
               /\ leaked' = leaked
       /\ nRegistering' < nRegistering
            => ~server.started /\ server.nInvoke = 0]_vars
\* C34: when close() was called while the resolution or the bind of the one
\* open() in flight had not completed, tryShutdown did not throw, and no open() or close() has
\* been called since, then once nothing is in flight any more and the open has
\* reported success last, the endpoint is closed all the same:
\* isOpen() is false and no server takes calls.
C34_AsStated ==
    (cycle.phase = "late" /\ Settled /\ OpenSucceeded) => ~server.set /\ ~Takes(server)
\* C37: whenever the callback of open() has received an error, the server has
\* not been started (that isOpen() is false then as well is what C13_AsStated
\* says of the bind failure).
C37_AsStated ==
    (ev.op = "open" /\ ev.res = "err") => ~server.started
\* C38: once the callback of close() has been invoked, with or without an
\* error, isOpen() is false, so that a following open() does not return at
\* once but binds a new server.
C38_AsStated ==
    ev.op = "close" => ~server.set
\* C36: when the callback of callCommand has run for a transport response, it
\* has ended the timing once and then invoked the caller's callback once, also
\* when the caller's callback throws.
C36_AsStated ==
    ev.op = "callCommand" => ev.steps = <<"endTiming", "callback">>
\* C39: once the endpoint a service has created for itself has run its start
\* sequence and reported success, the registration the service added has
\* bound the methods of the service onto the server.
C39_AsStated ==
    \A S \in MethodServices :
        (Started /\ svc[S].endpoint = "own") => MethodsOf(S) \subseteq server.services

\* C40: whenever the endpoint of a service has run its start sequence and
\* reported success, after any number of opens and closes, the interceptor
\* list of the service holds what one run of register() contributes.
C40_AsStated ==
    \A S \in MethodServices :
        (Started /\ svc[S].endpoint = "own") => chain.n = Len(InterceptorsOf(S))
====
